---------------------------- MODULE Spec2Model ----------------------------
(***************************************************************************)
(* Consistency of the relational store R (PostgreSQL: documents, chunks)   *)
(* and the vector store V (Milvus Lite collection) under the operations of *)
(* RAGSystem / DatabaseManager: store_document, delete_document,           *)
(* clean_all, verify, resync_databases.                                    *)
(*                                                                         *)
(* Every operation is cut at its calls to the two stores: one action per   *)
(* store round trip, so that the states between the PostgreSQL commit and  *)
(* the Milvus call are visible.  A Milvus call either takes effect or      *)
(* raises without effect; which one is chosen nondeterministically.        *)
(***************************************************************************)
EXTENDS Integers, Sequences, FiniteSets, Bags, TLC

(***************************************************************************)
(* Bounds of the model.                                                    *)
(***************************************************************************)
MaxChunksPerDoc == 2      \* longest chunk list the chunker returns here
MaxChunkIds     == 3      \* chunk uuids handed out in one behaviour
MaxDocIds       == 2      \* document uuids handed out in one behaviour
MaxVectors      == 3      \* records the collection is allowed to hold

(***************************************************************************)
(* limit=10000 of the Milvus scans in verify() and resync_databases(),     *)
(* scaled down so that a collection larger than one scan is reachable.     *)
(***************************************************************************)
QueryLimit == 1

Procs == {1, 2}           \* callers of the API

Filenames == {"a.md", "b.txt"}

(***************************************************************************)
(* Document texts.  "" is the empty text; T1 and T2 stand for two          *)
(* different non-empty texts of any length.                                *)
(***************************************************************************)
Texts == {"", "T1", "T2"}

Min(a, b) == IF a <= b THEN a ELSE b

SetToSeqs(S) == {s \in [1..Cardinality(S) -> S] : \A x \in S : \E i \in DOMAIN s : s[i] = x}

(***************************************************************************)
(* str(uuid.uuid4()): a fresh identifier on every call.  The n-th call     *)
(* for a chunk returns UuidPool[n], the n-th for a document DocUuidPool[n].*)
(***************************************************************************)
UuidPool ==
    << "6513270e-269e-4d37-b2a7-4de452e6b438",
       "d23f0824-128b-4f33-8c5c-7fd0a6a3a450",
       "9531985d-5d9d-49f8-9818-e811892f902b",
       "36f675cc-81e7-4ef5-a8e2-5d940ed90475",
       "6b0d549b-6f03-475a-9600-a35a099950d8",
       "8d116ece-1738-47d9-bd9c-172411e20b8f",
       "90c192cf-d3ac-44af-8f21-ddb66cad4a26" >>

DocUuidPool == << "D1", "D2", "D3", "D4", "D5" >>

(***************************************************************************)
(* hashlib.md5(s.encode()).digest() on the identifiers of UuidPool and on  *)
(* the document texts: the 16 bytes MD5 yields for each of these strings.  *)
(***************************************************************************)
md5_digest(s) ==
    CASE s = "6513270e-269e-4d37-b2a7-4de452e6b438" ->
           << 227, 105, 244, 33, 102, 10, 51, 196, 5, 87, 45, 6, 254, 150, 242, 31 >>
      [] s = "d23f0824-128b-4f33-8c5c-7fd0a6a3a450" ->
           << 89, 244, 145, 93, 216, 172, 243, 196, 177, 255, 229, 133, 92, 171, 74, 233 >>
      [] s = "9531985d-5d9d-49f8-9818-e811892f902b" ->
           << 195, 194, 32, 91, 166, 20, 118, 16, 213, 153, 207, 76, 29, 17, 146, 166 >>
      [] s = "36f675cc-81e7-4ef5-a8e2-5d940ed90475" ->
           << 118, 26, 221, 212, 4, 34, 161, 2, 117, 130, 248, 133, 219, 21, 169, 108 >>
      [] s = "6b0d549b-6f03-475a-9600-a35a099950d8" ->
           << 186, 216, 143, 11, 89, 74, 190, 21, 171, 107, 162, 250, 83, 152, 144, 161 >>
      [] s = "8d116ece-1738-47d9-bd9c-172411e20b8f" ->
           << 162, 153, 242, 103, 245, 103, 36, 111, 142, 242, 82, 131, 203, 193, 91, 37 >>
      [] s = "90c192cf-d3ac-44af-8f21-ddb66cad4a26" ->
           << 98, 154, 127, 107, 249, 159, 68, 110, 145, 75, 16, 58, 123, 12, 84, 114 >>
      [] s = "" ->
           << 212, 29, 140, 217, 143, 0, 178, 4, 233, 128, 9, 152, 236, 248, 66, 126 >>
      [] s = "T1" ->
           << 206, 73, 157, 234, 48, 207, 206, 17, 143, 79, 232, 93, 160, 34, 126, 131 >>
      [] s = "T2" ->
           << 113, 210, 196, 106, 240, 31, 238, 234, 84, 160, 245, 65, 36, 62, 41, 123 >>

\* struct.unpack('>Q', b)[0]: the same 8 bytes read as an unsigned integer
unpack_Q_unsigned(b) ==
    << b[1] * 256 + b[2],
       b[3] * 256 + b[4],
       b[5] * 256 + b[6],
       b[7] * 256 + b[8] >>

(***************************************************************************)
(* struct.unpack('>q', b)[0]: the 8 bytes read big-endian as a signed      *)
(* 64-bit integer.  The value is kept as four 16-bit words                 *)
(* <<w3, w2, w1, w0>>, w3 signed, standing for                             *)
(* w3 * 2^48 + w2 * 2^32 + w1 * 2^16 + w0.                                 *)
(***************************************************************************)
unpack_q(b) ==
    << (IF b[1] >= 128 THEN b[1] - 256 ELSE b[1]) * 256 + b[2],
       b[3] * 256 + b[4],
       b[5] * 256 + b[6],
       b[7] * 256 + b[8] >>

(***************************************************************************)
(* DatabaseManager._uuid_to_int64                                          *)
(***************************************************************************)
uuid_to_int64(uuid_str) == unpack_q(SubSeq(md5_digest(uuid_str), 1, 8))

(***************************************************************************)
(* hashlib.md5(text.encode()).hexdigest() of a document text; the digests  *)
(* of the three texts are pairwise different.                              *)
(***************************************************************************)
file_hash_of(text) == md5_digest(text)

(***************************************************************************)
(* chunk_text_toc_aware(text, filename): the chunk lists the chunker may   *)
(* return.  The empty text gives no chunk; a non-empty text gives between  *)
(* one and MaxChunksPerDoc chunks, the i-th being segment i of the text.   *)
(***************************************************************************)
chunk_text_toc_aware(text) ==
    IF text = "" THEN { <<>> }
    ELSE { [i \in 1..n |-> <<text, i>>] : n \in 1..MaxChunksPerDoc }

(***************************************************************************)
(* generate_embedding(text): the embedding of the text, or the zero        *)
(* vector when the embedding service raised.                               *)
(***************************************************************************)
ZeroVector == <<"zero">>

generate_embedding(text, service_ok) ==
    IF service_ok THEN <<"embedding", text>> ELSE ZeroVector

(***************************************************************************)
(* State.                                                                  *)
(***************************************************************************)
VARIABLES
    documents,        \* rows of table documents
    chunks,           \* rows of table chunks
    has_collection,   \* the Milvus collection exists
    vectors,          \* the records of the collection, a bag
    next_doc,         \* uuids handed out for documents so far
    next_chunk,       \* uuids handed out for chunks so far
    call,             \* per caller: the operation in progress and its locals
    hist              \* what happened since the stores were last written

vars == <<documents, chunks, has_collection, vectors, next_doc, next_chunk, call, hist>>

Resting == {"idle", "done", "raised"}

NoResult == [kind |-> "none"]

IdleCall ==
    [op |-> "none", pc |-> "idle", filename |-> "", text |-> "",
     document_id |-> "", chunk_records |-> <<>>, chunk_ids_str |-> {},
     todo |-> {}, all_chunks |-> {}, existing_vector_ids |-> {},
     result |-> NoResult]

NoHist == [prev_resync_ok |-> FALSE, removed |-> 0, repaired |-> FALSE]

Init ==
    /\ documents = {}
    /\ chunks = {}
    /\ has_collection = TRUE
    /\ vectors = EmptyBag
    /\ next_doc = 0
    /\ next_chunk = 0
    /\ call = [p \in Procs |-> IdleCall]
    /\ hist = NoHist

(***************************************************************************)
(* The Milvus client.                                                      *)
(***************************************************************************)
VectorCount == BagCardinality(vectors)

\* MilvusClient.insert: appends the records; primary keys are not checked
MilvusInsert(records) == vectors (+) records

\* MilvusClient.delete(ids=...): removes every record with one of the ids
MilvusDelete(ids) ==
    LET keep == {r \in DOMAIN vectors : r.id \notin ids}
    IN  [r \in keep |-> vectors[r]]

\* MilvusClient.query(filter="", limit=QueryLimit): any QueryLimit records
\* of the collection, all of them when it holds no more than that
MilvusQuery ==
    {B \in SubBag(vectors) : BagCardinality(B) = Min(VectorCount, QueryLimit)}

(***************************************************************************)
(* Rows of R.                                                              *)
(***************************************************************************)
ChunksOf(document_id) == {c \in chunks : c.document_id = document_id}

Range(s) == {s[i] : i \in DOMAIN s}

BagOfSeq(s) == [x \in Range(s) |-> Cardinality({i \in DOMAIN s : s[i] = x})]

\* a chunk of R has its vector when V holds a record with the chunk's numeric id
HasVector(c) == \E r \in DOMAIN vectors : r.id = uuid_to_int64(c.id)

AllChunksHaveVectors == \A c \in chunks : HasVector(c)

Returned(v) == [kind |-> "returned", value |-> v]

Raised(e) == [kind |-> "raised", value |-> e]

\* the call has ended: its locals are gone, its outcome is kept
Done(op, result) == [IdleCall EXCEPT !.op = op, !.pc = "done", !.result = result]

Fail(op, error) == [IdleCall EXCEPT !.op = op, !.pc = "raised", !.result = Raised(error)]

(***************************************************************************)
(* RAGSystem.store_document(filename, text)                                *)
(***************************************************************************)
\* the session's pending rows: Document(...) and Chunk(...) before db.commit()
\* (created_at and the toc outline of the document take no part in what the
\* two stores agree on and are left out of the row)
NewDocument(c) ==
    [id |-> c.document_id, filename |-> c.filename, full_text |-> c.text,
     file_hash |-> file_hash_of(c.text), chunk_count |-> Len(c.chunk_records)]

\* chunk_index counted from 1
NewChunkRecords_from_one(document_id, chunk_list, first) ==
    [i \in DOMAIN chunk_list |->
        [id |-> UuidPool[first + i], document_id |-> document_id,
         chunk_index |-> i, text |-> chunk_list[i]]]

NewChunkRecords(document_id, chunk_list, first) ==
    [i \in DOMAIN chunk_list |->
        [id |-> UuidPool[first + i], document_id |-> document_id,
         chunk_index |-> i - 1, text |-> chunk_list[i]]]

\* the lookup filtered by filename as well as by hash
existing_doc_same_name(filename, text) ==
    {d \in documents : d.file_hash = file_hash_of(text) /\ d.filename = filename}

\* db.query(Document).filter(Document.file_hash == file_hash)
existing_doc(filename, text) == {d \in documents : d.file_hash = file_hash_of(text)}

\* hash of the text, lookup of an existing document, chunking, db.add(...)
StoreBegin(p, filename, text) ==
    /\ call[p].pc \in Resting
    /\ LET existing == existing_doc(filename, text)
       IN  IF existing # {}
           THEN /\ \E d \in existing :
                     call' = [call EXCEPT ![p] =
                                [Done("store", Returned(d.id)) EXCEPT
                                   !.filename = filename, !.text = text]]
                /\ UNCHANGED <<next_doc, next_chunk>>
           ELSE \E chunk_list \in chunk_text_toc_aware(text) :
                  /\ next_doc < MaxDocIds
                  /\ next_chunk + Len(chunk_list) <= MaxChunkIds
                  /\ next_doc' = next_doc + 1
                  /\ next_chunk' = next_chunk + Len(chunk_list)
                  /\ call' = [call EXCEPT ![p] =
                                [IdleCall EXCEPT
                                   !.op = "store", !.pc = "commit",
                                   !.filename = filename, !.text = text,
                                   !.document_id = DocUuidPool[next_doc + 1],
                                   !.chunk_records =
                                      NewChunkRecords(DocUuidPool[next_doc + 1],
                                                      chunk_list, next_chunk)]]
    /\ UNCHANGED <<documents, chunks, has_collection, vectors, hist>>

\* db.commit() without the unique constraint on file_hash
StoreCommit_no_unique_constraint(p) ==
    /\ call[p].op = "store" /\ call[p].pc = "commit"
    /\ documents' = documents \cup {NewDocument(call[p])}
    /\ chunks' = chunks \cup Range(call[p].chunk_records)
    /\ call' = [call EXCEPT ![p].pc = "embed"]
    /\ hist' = NoHist
    /\ UNCHANGED <<has_collection, vectors, next_doc, next_chunk>>

\* the document is committed before its chunks are
StoreCommit_document_first(p) ==
    /\ call[p].op = "store" /\ call[p].pc = "commit"
    /\ ~ \E d \in documents : d.file_hash = file_hash_of(call[p].text)
    /\ documents' = documents \cup {NewDocument(call[p])}
    /\ hist' = NoHist
    /\ UNCHANGED <<chunks, call, has_collection, vectors, next_doc, next_chunk>>

\* db.commit(): the document and its chunks in one transaction; the unique
\* constraint on file_hash rejects a second document with the same content
StoreCommit(p) ==
    /\ call[p].op = "store" /\ call[p].pc = "commit"
    /\ IF \E d \in documents : d.file_hash = file_hash_of(call[p].text)
       THEN /\ call' = [call EXCEPT ![p] = Fail("store", "IntegrityError")]
            /\ UNCHANGED <<documents, chunks, hist>>
       ELSE /\ documents' = documents \cup {NewDocument(call[p])}
            /\ chunks' = chunks \cup Range(call[p].chunk_records)
            /\ call' = [call EXCEPT ![p].pc = "embed"]
            /\ hist' = NoHist
    /\ UNCHANGED <<has_collection, vectors, next_doc, next_chunk>>

\* every embedding is generated from the text of the first chunk
VectorDataOf_first_text(chunk_records, service_ok) ==
    [i \in DOMAIN chunk_records |->
        [id |-> uuid_to_int64(chunk_records[i].id),
         vector |-> generate_embedding(chunk_records[1].text, service_ok[i]),
         document_id |-> chunk_records[i].document_id,
         chunk_index |-> chunk_records[i].chunk_index]]

\* VectorData of chunk records, one embedding per chunk
VectorDataOf(chunk_records, service_ok) ==
    [i \in DOMAIN chunk_records |->
        [id |-> uuid_to_int64(chunk_records[i].id),
         vector |-> generate_embedding(chunk_records[i].text, service_ok[i]),
         document_id |-> chunk_records[i].document_id,
         chunk_index |-> chunk_records[i].chunk_index]]

\* the embedding loop and db_manager.insert_vectors(insert_data)
StoreVectors(p) ==
    /\ call[p].op = "store" /\ call[p].pc = "embed"
    /\ \E service_ok \in [DOMAIN call[p].chunk_records -> BOOLEAN] :
         LET insert_data == VectorDataOf(call[p].chunk_records, service_ok)
         IN  IF insert_data = <<>>
             THEN /\ call' = [call EXCEPT ![p] =
                                      Done("store", Returned(call[p].document_id))]
                  /\ UNCHANGED vectors
             ELSE \/ /\ has_collection
                     /\ VectorCount + Len(insert_data) <= MaxVectors
                     /\ vectors' = MilvusInsert(BagOfSeq(insert_data))
                     /\ call' = [call EXCEPT ![p] =
                                         Done("store", Returned(call[p].document_id))]
                  \/ /\ call' = [call EXCEPT ![p] = Fail("store", "MilvusError")]
                     /\ UNCHANGED vectors
    /\ hist' = NoHist
    /\ UNCHANGED <<documents, chunks, has_collection, next_doc, next_chunk>>

(***************************************************************************)
(* DatabaseManager.delete_document(document_id)                            *)
(***************************************************************************)
\* the chunk ids are read, then chunks and document are deleted and committed
DeleteBegin(p, document_id) ==
    /\ call[p].pc \in Resting
    /\ LET chunk_ids_str == {c.id : c \in ChunksOf(document_id)}
       IN  /\ chunks' = chunks \ ChunksOf(document_id)
           /\ documents' = {d \in documents : d.id # document_id}
           /\ call' = [call EXCEPT ![p] =
                         IF chunk_ids_str = {}
                         THEN [Done("delete", Returned("None")) EXCEPT
                                 !.document_id = document_id]
                         ELSE [IdleCall EXCEPT
                                 !.op = "delete", !.pc = "vdelete",
                                 !.document_id = document_id,
                                 !.chunk_ids_str = chunk_ids_str]]
    /\ hist' = NoHist
    /\ UNCHANGED <<has_collection, vectors, next_doc, next_chunk>>

\* a failure of milvus_client.delete is swallowed
DeleteVectors_swallow(p) ==
    /\ call[p].op = "delete" /\ call[p].pc = "vdelete"
    /\ call' = [call EXCEPT ![p] =
                  [Done("delete", Returned("None")) EXCEPT
                     !.document_id = call[p].document_id]]
    /\ hist' = NoHist
    /\ UNCHANGED <<documents, chunks, has_collection, vectors, next_doc, next_chunk>>

\* milvus_client.delete(ids=chunk_ids_int); a failure is raised to the caller
\* after a db.rollback() that finds nothing to roll back
DeleteVectors(p) ==
    /\ call[p].op = "delete" /\ call[p].pc = "vdelete"
    /\ LET chunk_ids_int == {uuid_to_int64(id) : id \in call[p].chunk_ids_str}
       IN  \/ /\ has_collection
              /\ vectors' = MilvusDelete(chunk_ids_int)
              /\ call' = [call EXCEPT ![p] =
                            [Done("delete", Returned("None")) EXCEPT
                               !.document_id = call[p].document_id]]
           \/ /\ call' = [call EXCEPT ![p] = Fail("delete", "MilvusError")]
              /\ UNCHANGED vectors
    /\ hist' = NoHist
    /\ UNCHANGED <<documents, chunks, has_collection, next_doc, next_chunk>>

(***************************************************************************)
(* DatabaseManager.clean_all()                                             *)
(***************************************************************************)
CleanBegin(p) ==
    /\ call[p].pc \in Resting
    /\ LET chunk_ids_str == {c.id : c \in chunks}
       IN  /\ chunks' = {}
           /\ documents' = {}
           /\ call' = [call EXCEPT ![p] =
                         IF chunk_ids_str = {}
                         THEN Done("clean", Returned("None"))
                         ELSE [IdleCall EXCEPT
                                 !.op = "clean", !.pc = "vdelete",
                                 !.chunk_ids_str = chunk_ids_str]]
    /\ hist' = NoHist
    /\ UNCHANGED <<has_collection, vectors, next_doc, next_chunk>>

\* milvus_client.delete(ids=chunk_ids_int); on a failure the collection is
\* dropped if it exists and the drop succeeds; clean_all returns either way
CleanVectors(p) ==
    /\ call[p].op = "clean" /\ call[p].pc = "vdelete"
    /\ LET chunk_ids_int == {uuid_to_int64(id) : id \in call[p].chunk_ids_str}
       IN  \/ /\ has_collection
              /\ vectors' = MilvusDelete(chunk_ids_int)
              /\ UNCHANGED has_collection
           \/ /\ has_collection
              /\ has_collection' = FALSE
              /\ vectors' = EmptyBag
           \/ UNCHANGED <<has_collection, vectors>>
    /\ call' = [call EXCEPT ![p] = Done("clean", Returned("None"))]
    /\ hist' = NoHist
    /\ UNCHANGED <<documents, chunks, next_doc, next_chunk>>

(***************************************************************************)
(* DatabaseManager.verify()                                                *)
(***************************************************************************)
NewVerificationResult ==
    [kind |-> "verification",
     postgres_connected |-> FALSE, milvus_connected |-> FALSE,
     synchronized |-> TRUE, postgres_documents |-> 0, postgres_chunks |-> 0,
     milvus_vectors |-> 0, issues |-> <<>>]

CountMismatch(postgres_chunks, milvus_vectors) ==
    <<"Count mismatch", postgres_chunks, milvus_vectors, postgres_chunks - milvus_vectors>>

\* "Verify PostgreSQL": the two queries ("ok"), the exception the block
\* catches ("raises"), or the block skipped because _postgres_initialized is
\* false ("uninitialised")
VerifyPostgresResult(r, postgres_outcome) ==
    CASE postgres_outcome = "ok" ->
           [r EXCEPT !.postgres_connected = TRUE,
                     !.postgres_documents = Cardinality(documents),
                     !.postgres_chunks = Cardinality(chunks)]
      [] postgres_outcome = "raises" ->
           [r EXCEPT !.issues = Append(r.issues, <<"PostgreSQL verification error">>)]
      [] postgres_outcome = "uninitialised" -> r

\* the exception of the PostgreSQL queries is not caught
VerifyPostgres_raising(p, postgres_outcome) ==
    /\ call[p].pc \in Resting
    /\ call' = [call EXCEPT ![p] =
                  IF postgres_outcome = "raises"
                  THEN Fail("verify", "PostgresError")
                  ELSE [IdleCall EXCEPT
                          !.op = "verify", !.pc = "milvus",
                          !.result = VerifyPostgresResult(NewVerificationResult,
                                                          postgres_outcome)]]
    /\ UNCHANGED <<documents, chunks, has_collection, vectors, next_doc, next_chunk, hist>>

VerifyPostgres(p, postgres_outcome) ==
    /\ call[p].pc \in Resting
    /\ call' = [call EXCEPT ![p] =
                  [IdleCall EXCEPT
                     !.op = "verify", !.pc = "milvus",
                     !.result = VerifyPostgresResult(NewVerificationResult,
                                                     postgres_outcome)]]
    /\ UNCHANGED <<documents, chunks, has_collection, vectors, next_doc, next_chunk, hist>>

\* only missing vectors are flagged: fewer records in V than chunks in R
CheckSynchronization_only_missing(r) ==
    IF r.postgres_chunks > r.milvus_vectors
    THEN [r EXCEPT !.synchronized = FALSE,
                   !.issues = Append(r.issues,
                                     CountMismatch(r.postgres_chunks, r.milvus_vectors))]
    ELSE r

\* "Check synchronization"
CheckSynchronization(r) ==
    IF r.postgres_chunks # r.milvus_vectors
    THEN [r EXCEPT !.synchronized = FALSE,
                   !.issues = Append(r.issues,
                                     CountMismatch(r.postgres_chunks, r.milvus_vectors))]
    ELSE r

\* "Verify Milvus": has_collection, then the scan that counts the records;
\* milvus_outcome is what the client does: "ok", "has_collection raises",
\* "query raises", or "uninitialised" when _milvus_initialized is false and
\* the block is skipped
VerifyMilvusResult(r, milvus_outcome, all_data) ==
    CASE milvus_outcome = "uninitialised" -> r
      [] milvus_outcome = "has_collection raises" ->
           [r EXCEPT !.issues = Append(r.issues, <<"Milvus verification error">>)]
      [] milvus_outcome \in {"ok", "query raises"} /\ ~has_collection ->
           [r EXCEPT !.issues = Append(r.issues, <<"Milvus collection does not exist">>)]
      [] milvus_outcome = "query raises" /\ has_collection ->
           [r EXCEPT !.milvus_connected = TRUE,
                     !.issues = Append(r.issues, <<"Could not query Milvus vectors">>)]
      [] milvus_outcome = "ok" /\ has_collection ->
           [r EXCEPT !.milvus_connected = TRUE,
                     !.milvus_vectors = BagCardinality(all_data)]

\* verify() creates the collection when it finds none, as _init_milvus does
VerifyMilvus_creating_collection(p, milvus_outcome) ==
    /\ call[p].op = "verify" /\ call[p].pc = "milvus"
    /\ \E all_data \in MilvusQuery :
         call' = [call EXCEPT ![p] =
                    Done("verify",
                         CheckSynchronization(
                            VerifyMilvusResult(call[p].result, milvus_outcome, all_data)))]
    /\ has_collection' = (has_collection \/ milvus_outcome \in {"ok", "query raises"})
    /\ UNCHANGED <<documents, chunks, vectors, next_doc, next_chunk, hist>>

VerifyMilvus(p, milvus_outcome) ==
    /\ call[p].op = "verify" /\ call[p].pc = "milvus"
    /\ \E all_data \in MilvusQuery :
         call' = [call EXCEPT ![p] =
                    Done("verify",
                         CheckSynchronization(
                            VerifyMilvusResult(call[p].result, milvus_outcome, all_data)))]
    /\ UNCHANGED <<documents, chunks, has_collection, vectors, next_doc, next_chunk, hist>>

(***************************************************************************)
(* RAGSystem.resync_databases()                                            *)
(***************************************************************************)
NewResyncResult ==
    [kind |-> "resync", success |-> TRUE, documents_processed |-> 0,
     chunks_processed |-> 0, vectors_inserted |-> 0, errors |-> <<>>]

\* hist after a resync run has returned result r
AfterResync(r) ==
    IF r.errors = <<>>
    THEN [prev_resync_ok |-> TRUE, removed |-> hist.removed,
          repaired |-> hist.removed > 0]
    ELSE NoHist

\* db.query(Document).all() and db.query(Chunk).all()
ResyncBegin(p) ==
    /\ call[p].pc \in Resting
    /\ call' = [call EXCEPT ![p] =
                  [IdleCall EXCEPT !.op = "resync", !.pc = "scan",
                                   !.todo = documents, !.all_chunks = chunks,
                                   !.result = NewResyncResult]]
    /\ UNCHANGED <<documents, chunks, has_collection, vectors, next_doc, next_chunk, hist>>

\* has_collection and the scan of the ids present in Milvus
ResyncScan(p, milvus_outcome) ==
    /\ call[p].op = "resync" /\ call[p].pc = "scan"
    /\ CASE milvus_outcome = "has_collection raises" ->
              /\ call' = [call EXCEPT ![p] =
                            Done("resync",
                                 [call[p].result EXCEPT
                                    !.success = FALSE,
                                    !.errors = Append(@, <<"Error during resynchronization">>)])]
              /\ hist' = NoHist
         [] milvus_outcome # "has_collection raises" /\ ~has_collection ->
              /\ call' = [call EXCEPT ![p].pc = "repair",
                                      ![p].existing_vector_ids = {}]
              /\ UNCHANGED hist
         [] milvus_outcome = "query raises" /\ has_collection ->
              /\ call' = [call EXCEPT
                            ![p].pc = "repair",
                            ![p].existing_vector_ids = {},
                            ![p].result.errors =
                                Append(@, <<"Could not query existing Milvus vectors">>)]
              /\ UNCHANGED hist
         [] milvus_outcome = "ok" /\ has_collection ->
              /\ \E existing_vectors \in MilvusQuery :
                   call' = [call EXCEPT
                              ![p].pc = "repair",
                              ![p].existing_vector_ids =
                                  {v.id : v \in DOMAIN existing_vectors}]
              /\ UNCHANGED hist
    /\ UNCHANGED <<documents, chunks, has_collection, vectors, next_doc, next_chunk>>

\* a failed insert ends the run: the documents left are not processed
ResyncDocument_abort_on_failure(p) ==
    /\ call[p].op = "resync" /\ call[p].pc = "repair"
    /\ \E doc \in call[p].todo :
         LET doc_chunks == {c \in call[p].all_chunks : c.document_id = doc.id}
             missing == {c \in doc_chunks :
                            uuid_to_int64(c.id) \notin call[p].existing_vector_ids}
             processed == [call[p].result EXCEPT
                             !.chunks_processed = @ + Cardinality(doc_chunks),
                             !.documents_processed = @ + 1]
         IN  \E order \in SetToSeqs(missing) :
             \E service_ok \in [DOMAIN order -> BOOLEAN] :
               LET chunks_to_insert == VectorDataOf(order, service_ok)
               IN  \/ /\ chunks_to_insert = <<>>
                      /\ UNCHANGED <<vectors, hist>>
                      /\ call' = [call EXCEPT ![p].todo = @ \ {doc},
                                              ![p].result = processed]
                   \/ /\ chunks_to_insert # <<>>
                      /\ has_collection
                      /\ VectorCount + Len(chunks_to_insert) <= MaxVectors
                      /\ vectors' = MilvusInsert(BagOfSeq(chunks_to_insert))
                      /\ UNCHANGED hist
                      /\ call' = [call EXCEPT
                                    ![p].todo = @ \ {doc},
                                    ![p].result =
                                       [processed EXCEPT
                                          !.vectors_inserted = @ + Len(chunks_to_insert)]]
                   \/ /\ chunks_to_insert # <<>>
                      /\ UNCHANGED vectors
                      /\ hist' = NoHist
                      /\ call' = [call EXCEPT ![p] =
                                    Done("resync",
                                         [call[p].result EXCEPT
                                            !.success = FALSE,
                                            !.errors = Append(@, <<"Error inserting vectors", doc.id>>)])]
    /\ UNCHANGED <<documents, chunks, has_collection, next_doc, next_chunk>>

\* one round of "for doc in documents": the vectors of the document's
\* chunks that the scan did not return are generated and inserted
ResyncDocument(p) ==
    /\ call[p].op = "resync" /\ call[p].pc = "repair"
    /\ \E doc \in call[p].todo :
         LET doc_chunks == {c \in call[p].all_chunks : c.document_id = doc.id}
             missing == {c \in doc_chunks :
                            uuid_to_int64(c.id) \notin call[p].existing_vector_ids}
             processed == [call[p].result EXCEPT
                             !.chunks_processed = @ + Cardinality(doc_chunks),
                             !.documents_processed = @ + 1]
         IN  \E order \in SetToSeqs(missing) :
             \E service_ok \in [DOMAIN order -> BOOLEAN] :
               LET chunks_to_insert == VectorDataOf(order, service_ok)
               IN  \/ /\ chunks_to_insert = <<>>
                      /\ UNCHANGED vectors
                      /\ call' = [call EXCEPT ![p].todo = @ \ {doc},
                                              ![p].result = processed]
                   \/ /\ chunks_to_insert # <<>>
                      /\ has_collection
                      /\ VectorCount + Len(chunks_to_insert) <= MaxVectors
                      /\ vectors' = MilvusInsert(BagOfSeq(chunks_to_insert))
                      /\ call' = [call EXCEPT
                                    ![p].todo = @ \ {doc},
                                    ![p].result =
                                       [processed EXCEPT
                                          !.vectors_inserted = @ + Len(chunks_to_insert)]]
                   \/ /\ chunks_to_insert # <<>>
                      /\ UNCHANGED vectors
                      /\ call' = [call EXCEPT
                                    ![p].todo = @ \ {doc},
                                    ![p].result =
                                       [processed EXCEPT
                                          !.success = FALSE,
                                          !.errors = Append(@, <<"Error inserting vectors", doc.id>>)]]
    /\ UNCHANGED <<documents, chunks, has_collection, next_doc, next_chunk, hist>>

\* before it returns, the run deletes the records of V whose chunk it did
\* not read from R
ResyncReturn_purging_orphans(p) ==
    /\ call[p].op = "resync" /\ call[p].pc = "repair"
    /\ call[p].todo = {}
    /\ vectors' = MilvusDelete({r.id : r \in DOMAIN vectors} \
                               {uuid_to_int64(c.id) : c \in call[p].all_chunks})
    /\ call' = [call EXCEPT ![p] = Done("resync", call[p].result)]
    /\ hist' = AfterResync(call[p].result)
    /\ UNCHANGED <<documents, chunks, has_collection, next_doc, next_chunk>>

\* the loop is over: return resync_result
ResyncReturn(p) ==
    /\ call[p].op = "resync" /\ call[p].pc = "repair"
    /\ call[p].todo = {}
    /\ call' = [call EXCEPT ![p] = Done("resync", call[p].result)]
    /\ hist' = AfterResync(call[p].result)
    /\ UNCHANGED <<documents, chunks, has_collection, vectors, next_doc, next_chunk>>

(***************************************************************************)
(* The environment of the two stores.                                      *)
(***************************************************************************)
\* one record is deleted from the collection behind the program's back
RemoveVectorDirectly(r) ==
    /\ \A p \in Procs : call[p].pc \in Resting
    /\ r \in DOMAIN vectors
    /\ vectors' = IF vectors[r] = 1
                  THEN [x \in DOMAIN vectors \ {r} |-> vectors[x]]
                  ELSE [vectors EXCEPT ![r] = @ - 1]
    /\ hist' = IF hist.removed > 0 /\ ~hist.repaired
               THEN [hist EXCEPT !.removed = @ + 1, !.prev_resync_ok = FALSE]
               ELSE IF AllChunksHaveVectors
                    THEN [prev_resync_ok |-> FALSE, removed |-> 1, repaired |-> FALSE]
                    ELSE NoHist
    /\ UNCHANGED <<documents, chunks, has_collection, next_doc, next_chunk, call>>

\* DatabaseManager.initialize() of a restarted process: _init_milvus creates
\* the collection when it does not exist
initialize ==
    /\ \A p \in Procs : call[p].pc \in Resting
    /\ ~has_collection
    /\ has_collection' = TRUE
    /\ call' = [p \in Procs |-> IdleCall]
    /\ hist' = NoHist
    /\ UNCHANGED <<documents, chunks, vectors, next_doc, next_chunk>>

(***************************************************************************)
(* Specification: one caller, one operation at a time.                     *)
(***************************************************************************)
IssuedDocumentIds == {DocUuidPool[i] : i \in 1..next_doc}

MilvusOutcomes == {"ok", "has_collection raises", "query raises"}

PostgresOutcomes == {"ok", "raises", "uninitialised"}

VerifyMilvusOutcomes == MilvusOutcomes \cup {"uninitialised"}

Step(p) ==
    \/ \E filename \in Filenames, text \in Texts : StoreBegin(p, filename, text)
    \/ StoreCommit(p)
    \/ StoreVectors(p)
    \/ \E document_id \in IssuedDocumentIds : DeleteBegin(p, document_id)
    \/ DeleteVectors(p)
    \/ CleanBegin(p)
    \/ CleanVectors(p)
    \/ \E postgres_outcome \in PostgresOutcomes : VerifyPostgres(p, postgres_outcome)
    \/ \E milvus_outcome \in VerifyMilvusOutcomes : VerifyMilvus(p, milvus_outcome)
    \/ ResyncBegin(p)
    \/ \E milvus_outcome \in MilvusOutcomes : ResyncScan(p, milvus_outcome)
    \/ ResyncDocument(p)
    \/ ResyncReturn(p)

Next ==
    \/ Step(1)
    \/ \E r \in DOMAIN vectors : RemoveVectorDirectly(r)
    \/ initialize

Spec == Init /\ [][Next]_vars

(***************************************************************************)
(* Specification: two callers whose store_document and delete_document     *)
(* calls interleave at the store round trips.                              *)
(***************************************************************************)
StoreOrDeleteStep(p) ==
    \/ \E filename \in Filenames, text \in Texts : StoreBegin(p, filename, text)
    \/ StoreCommit(p)
    \/ StoreVectors(p)
    \/ \E document_id \in IssuedDocumentIds : DeleteBegin(p, document_id)
    \/ DeleteVectors(p)

NextConcurrentStores == \E p \in Procs : StoreOrDeleteStep(p)

SpecConcurrentStores == Init /\ [][NextConcurrentStores]_vars

(***************************************************************************)
(* Specification: caller 1 runs resync_databases while caller 2 stores and *)
(* deletes documents; the two interleave at the store round trips.         *)
(***************************************************************************)
ResyncStep(p) ==
    \/ ResyncBegin(p)
    \/ \E milvus_outcome \in MilvusOutcomes : ResyncScan(p, milvus_outcome)
    \/ ResyncDocument(p)
    \/ ResyncReturn(p)

\* the uploads of the caller beside the resync: one filename, non-empty texts
UploadOrDeleteStep(p) ==
    \/ \E text \in Texts \ {""} : StoreBegin(p, "a.md", text)
    \/ StoreCommit(p)
    \/ StoreVectors(p)
    \/ \E document_id \in IssuedDocumentIds : DeleteBegin(p, document_id)
    \/ DeleteVectors(p)

NextResyncRace == ResyncStep(1) \/ UploadOrDeleteStep(2)

SpecResyncRace == Init /\ [][NextResyncRace]_vars

(***************************************************************************)
(* Properties.                                                             *)
(***************************************************************************)
Quiescent == \A p \in Procs : call[p].pc \in Resting

\* a step of caller p that starts store_document
StoreStarts(p) ==
    /\ call[p].pc \in Resting
    /\ call'[p] # call[p]
    /\ call'[p].op = "store"

(***************************************************************************)
(* C1: between operations every record of V has the numeric id of a chunk  *)
(* that is present in R, also after a Milvus call has failed: a vector     *)
(* record never outlives its chunk.                                        *)
(***************************************************************************)
C1_VectorNeverOutlivesChunk ==
    Quiescent =>
        \A r \in DOMAIN vectors : \E c \in chunks : r.id = uuid_to_int64(c.id)

(***************************************************************************)
(* C2: store_document called with a text whose hash is the hash of a       *)
(* document of R returns that document's id at once, whatever the          *)
(* filename, and leaves documents, chunks and the collection as they were. *)
(***************************************************************************)
C2_StoreIdempotentOnContent ==
    [][\A p \in Procs :
         (/\ StoreStarts(p)
          /\ \E d \in documents : d.file_hash = file_hash_of(call'[p].text))
         => /\ call'[p].pc = "done"
            /\ \E d \in documents :
                 /\ d.file_hash = file_hash_of(call'[p].text)
                 /\ call'[p].result = Returned(d.id)
            /\ documents' = documents
            /\ chunks' = chunks
            /\ vectors' = vectors
            /\ has_collection' = has_collection]_vars

\* the text of a stored document was stored again under another filename
C2_Witness ==
    /\ call[1].op = "store" /\ call[1].pc = "done"
    /\ \E d \in documents :
         /\ d.file_hash = file_hash_of(call[1].text)
         /\ d.filename # call[1].filename
         /\ call[1].filename \in Filenames
         /\ d.chunk_count = 2
         /\ call[1].result = Returned(d.id)

(***************************************************************************)
(* C3: the chunks of a document with chunk_count = N carry the indices     *)
(* 0 .. N-1, each once.                                                    *)
(***************************************************************************)
C3_ChunkIndicesContiguous ==
    \A d \in documents :
        /\ {c.chunk_index : c \in ChunksOf(d.id)} = 0 .. (d.chunk_count - 1)
        /\ Cardinality(ChunksOf(d.id)) = d.chunk_count

C3_Witness ==
    \E d \in documents : d.chunk_count = 2 /\ Cardinality(ChunksOf(d.id)) = 2

(***************************************************************************)
(* C7: when delete_document(d) has returned without error, R holds no      *)
(* document d and no chunk of d, and V holds no record of a chunk that     *)
(* belonged to d.                                                          *)
(***************************************************************************)
C7_DeleteRemovesFromBothStores ==
    \A p \in Procs :
        (call[p].op = "delete" /\ call[p].pc = "done")
        => /\ \A d \in documents : d.id # call[p].document_id
           /\ ChunksOf(call[p].document_id) = {}
           /\ \A r \in DOMAIN vectors : r.document_id # call[p].document_id

C10_InsertOrdering ==
    /\ \A c \in chunks : \E d \in documents : d.id = c.document_id
    /\ \A d \in documents : Cardinality(ChunksOf(d.id)) = d.chunk_count
    /\ \A p \in Procs :
         (call[p].op = "store" /\ call[p].pc = "commit")
         => /\ \A d \in documents : d.id # call[p].document_id
            /\ ChunksOf(call[p].document_id) = {}
            /\ \A r \in DOMAIN vectors : r.document_id # call[p].document_id
    /\ \A r \in DOMAIN vectors : r.document_id \in IssuedDocumentIds

\* committed in R, nothing in V yet
C10_Witness ==
    /\ call[1].op = "store" /\ call[1].pc = "embed"
    /\ Len(call[1].chunk_records) = 2
    /\ Range(call[1].chunk_records) = ChunksOf(call[1].document_id)
    /\ \E d \in documents : d.id = call[1].document_id
    /\ \A r \in DOMAIN vectors : r.document_id # call[1].document_id
    /\ vectors # EmptyBag

\* the reports verify() returns in the current state when no store call raises
VerificationReports ==
    {CheckSynchronization(
        VerifyMilvusResult(VerifyPostgresResult(NewVerificationResult, "ok"),
                           "ok", all_data)) : all_data \in MilvusQuery}

\* both stores were initialised and no call of the verify() that returned r
\* has raised
VerifyFailureFree(r) ==
    /\ r.postgres_connected
    /\ \/ r.milvus_connected
       \/ \E i \in DOMAIN r.issues : r.issues[i] = <<"Milvus collection does not exist">>
    /\ \A i \in DOMAIN r.issues :
         r.issues[i] \notin {<<"PostgreSQL verification error">>,
                             <<"Milvus verification error">>,
                             <<"Could not query Milvus vectors">>}

\* a step in which verify() of caller p returns
VerifyReturns(p) ==
    call[p].op = "verify" /\ call[p].pc = "milvus" /\ call'[p].pc = "done"

\* a step in which resync_databases() of caller p returns
ResyncReturns(p) ==
    call[p].op = "resync" /\ call[p].pc # "done" /\ call'[p].pc = "done"

(***************************************************************************)
(* C4: when resync_databases has run without error and runs again with no  *)
(* write to R or V in between, the second run adds no record to V and,     *)
(* when it too meets no error, reports vectors_inserted = 0.               *)
(***************************************************************************)
C4_ResyncIdempotent ==
    [][\A p \in Procs :
         /\ (/\ hist.prev_resync_ok
             /\ call[p].op = "resync" /\ call[p].pc \notin Resting
             /\ call[p].result.errors = <<>>)
            => vectors' = vectors
         /\ (hist.prev_resync_ok /\ ResyncReturns(p) /\ call'[p].result.errors = <<>>)
            => call'[p].result.vectors_inserted = 0]_vars

(***************************************************************************)
(* C5: from a state where every chunk of R has its vector in V, after k    *)
(* records (k >= 1) were removed directly from V, verify() reports         *)
(* synchronized = false, milvus_vectors = postgres_chunks - k and a count  *)
(* mismatch of difference k; a resync_databases() without error then       *)
(* reports vectors_inserted = k and leaves every chunk with its vector,    *)
(* after which verify() reports synchronized = true.                       *)
(***************************************************************************)
C5_DetectThenRepair ==
    [][\A p \in Procs :
         /\ (VerifyReturns(p) /\ VerifyFailureFree(call'[p].result)
               /\ hist.removed >= 1 /\ ~hist.repaired)
            => LET r == call'[p].result
               IN  /\ ~r.synchronized
                   /\ r.milvus_vectors = r.postgres_chunks - hist.removed
                   /\ \E i \in DOMAIN r.issues :
                        r.issues[i] = <<"Count mismatch", r.postgres_chunks,
                                        r.milvus_vectors, hist.removed>>
         /\ (ResyncReturns(p) /\ call'[p].result.errors = <<>>
               /\ hist.removed >= 1 /\ ~hist.repaired)
            => /\ call'[p].result.vectors_inserted = hist.removed
               /\ AllChunksHaveVectors'
         /\ (VerifyReturns(p) /\ VerifyFailureFree(call'[p].result) /\ hist.repaired)
            => call'[p].result.synchronized]_vars

(***************************************************************************)
(* C6: a verify() none of whose store calls raises returns                 *)
(* synchronized = true exactly when R holds as many chunks as V holds      *)
(* records.                                                                *)
(***************************************************************************)
C6_SynchronizedIffCountsEqual ==
    [][\A p \in Procs :
         (VerifyReturns(p) /\ VerifyFailureFree(call'[p].result))
         => (call'[p].result.synchronized <=> (Cardinality(chunks) = VectorCount))]_vars

(***************************************************************************)
(* C9: when the Milvus insert of store_document fails for a new document   *)
(* with N >= 1 chunks, the call raises, R keeps the document and its N     *)
(* chunks, V holds none of their vectors, and verify() then reports        *)
(* synchronized = false.                                                   *)
(***************************************************************************)
C9_InsertFailureLeavesOrphanedChunks ==
    [][\A p \in Procs :
         (call[p].op = "store" /\ call[p].pc = "embed" /\ call'[p].pc = "raised")
         => /\ call'[p].result.kind = "raised"
            /\ documents' = documents
            /\ chunks' = chunks
            /\ \E d \in documents' :
                 /\ d.id = call[p].document_id
                 /\ d.chunk_count = Len(call[p].chunk_records)
            /\ Range(call[p].chunk_records) \subseteq chunks'
            /\ \A c \in Range(call[p].chunk_records) :
                 \A r \in DOMAIN vectors' : r.id # uuid_to_int64(c.id)
            /\ \A report \in VerificationReports' : ~report.synchronized]_vars


\* a step in which clean_all() of caller p returns
CleanReturns(p) ==
    call[p].op = "clean" /\ call[p].pc \notin Resting /\ call'[p].pc = "done"

C12_CleanAllRecreatesCollection ==
    [][\A p \in Procs :
         (CleanReturns(p) /\ call[p].pc = "vdelete")
         => LET chunk_ids_int == {uuid_to_int64(id) : id \in call[p].chunk_ids_str}
            IN  /\ has_collection'
                /\ \A r \in DOMAIN vectors' : r.id \notin chunk_ids_int
                /\ \A report \in VerificationReports' : report.milvus_connected]_vars


(***************************************************************************)
(* C13: when the insert of one document's missing vectors fails inside     *)
(* resync_databases, an error naming the document is appended, success     *)
(* becomes false and the run goes on with the other documents; every step  *)
(* adds to vectors_inserted the number of records it added to V; and when  *)
(* the run returns, every document was processed and every document no     *)
(* error names has a vector for each of its chunks.                        *)
(***************************************************************************)
C13_ResyncFailureIsolation ==
    [][\A p \in Procs :
         (call[p].op = "resync" /\ call[p].pc = "repair" /\ call'[p] # call[p])
         => LET r == call[p].result
                r2 == call'[p].result
            IN  /\ r2.vectors_inserted - r.vectors_inserted = VectorCount' - VectorCount
                /\ (r2.errors # r.errors)
                   => /\ call'[p].pc = "repair"
                      /\ vectors' = vectors
                      /\ ~r2.success
                      /\ \E doc \in call[p].todo :
                           /\ call'[p].todo = call[p].todo \ {doc}
                           /\ r2.errors = Append(r.errors, <<"Error inserting vectors", doc.id>>)
                /\ (call'[p].pc = "done")
                   => /\ r2.documents_processed = Cardinality(documents)
                      /\ \A d \in documents :
                           (\A i \in DOMAIN r2.errors :
                               r2.errors[i] # <<"Error inserting vectors", d.id>>)
                           => \A c \in ChunksOf(d.id) : HasVector(c)]_vars

\* a run has returned with an insert error for one document and vectors
\* inserted for another
C13_Witness ==
    /\ call[1].op = "resync" /\ call[1].pc = "done"
    /\ call[1].result.vectors_inserted >= 1
    /\ ~call[1].result.success
    /\ call[1].result.documents_processed = 2
    /\ \E d \in documents, i \in DOMAIN call[1].result.errors :
         call[1].result.errors[i] = <<"Error inserting vectors", d.id>>


\* the records of the bag V that carry document_id, as a bag
RecordsOfDocument(V, document_id) ==
    [r \in {x \in DOMAIN V : x.document_id = document_id} |-> V[r]]

VectorsOfDocument(document_id) == RecordsOfDocument(vectors, document_id)

(***************************************************************************)
(* C14: when store_document returns the id of a new document with N        *)
(* chunks, V holds exactly N records of that document: for the chunk of    *)
(* index i one record with the chunk's numeric id, the document's id,      *)
(* chunk_index i and the embedding of that chunk's text, or the zero       *)
(* vector when the embedding service failed for it.                        *)
(***************************************************************************)
C14_OneVectorPerChunk ==
    [][\A p \in Procs :
         (call[p].op = "store" /\ call[p].pc = "embed" /\ call'[p].pc = "done")
         => LET document_id == call[p].document_id
                stored == ChunksOf(document_id)
            IN  /\ call'[p].result = Returned(document_id)
                /\ Cardinality(stored) = Len(call[p].chunk_records)
                /\ BagCardinality(RecordsOfDocument(vectors', document_id)) = Cardinality(stored)
                /\ \A c \in stored :
                     \E r \in DOMAIN vectors' :
                        /\ r.id = uuid_to_int64(c.id)
                        /\ r.document_id = document_id
                        /\ r.chunk_index = c.chunk_index
                        /\ r.vector \in {<<"embedding", c.text>>, ZeroVector}
                        /\ vectors'[r] = 1]_vars

\* a document of two chunks was stored while the embedding service failed
\* for one of them
C14_Witness ==
    /\ call[1].op = "store" /\ call[1].pc = "done"
    /\ \E d \in documents :
         /\ call[1].result = Returned(d.id)
         /\ d.chunk_count = 2
         /\ BagCardinality(VectorsOfDocument(d.id)) = 2
         /\ \E r1, r2 \in DOMAIN VectorsOfDocument(d.id) :
              r1.vector = ZeroVector /\ r2.vector # ZeroVector


\* a step of verify() of caller p: its PostgreSQL part or its Milvus part
VerifySteps(p) ==
    call'[p] # call[p] /\ call'[p].op = "verify"

(***************************************************************************)
(* C15: verify() is read-only: none of its steps changes the documents or  *)
(* chunks of R, the records of V or the existence of the collection.       *)
(***************************************************************************)
C15_VerifyReadOnly ==
    [][\A p \in Procs :
         VerifySteps(p)
         => /\ documents' = documents
            /\ chunks' = chunks
            /\ vectors' = vectors
            /\ has_collection' = has_collection]_vars

\* verify() has returned in a state where R holds chunks, V holds records
\* of deleted chunks and the collection exists
C15_Witness ==
    /\ call[1].op = "verify" /\ call[1].pc = "done"
    /\ chunks # {}
    /\ \E r \in DOMAIN vectors : \A c \in chunks : r.id # uuid_to_int64(c.id)


\* report r holds the issue
HasIssue(r, issue) == \E i \in DOMAIN r.issues : r.issues[i] = issue

(***************************************************************************)
(* C16: verify() never raises on a store failure.  Its first step always   *)
(* goes on to the Milvus part and its second step always returns a report. *)
(* In the report a store that was uninitialised or whose connection or     *)
(* query raised has its flag false and its count 0, except that a Milvus   *)
(* scan that raises after has_collection answered leaves milvus_connected  *)
(* true with the issue recorded; the flag and counts of each store are     *)
(* what that store alone gives, whatever happened to the other.            *)
(***************************************************************************)
C16_VerifyNeverRaises ==
    [][\A p \in Procs :
         VerifySteps(p)
         => LET r == call'[p].result
            IN  /\ call'[p].pc \in {"milvus", "done"}
                /\ call[p].pc = "milvus" <=> call'[p].pc = "done"
                /\ r.kind = "verification"
                /\ HasIssue(r, <<"PostgreSQL verification error">>) => ~r.postgres_connected
                /\ IF r.postgres_connected
                   THEN /\ r.postgres_documents = Cardinality(documents)
                        /\ r.postgres_chunks = Cardinality(chunks)
                   ELSE /\ r.postgres_documents = 0
                        /\ r.postgres_chunks = 0
                /\ (call'[p].pc = "done")
                   => /\ r.postgres_connected = call[p].result.postgres_connected
                      /\ r.postgres_chunks = call[p].result.postgres_chunks
                      /\ r.postgres_documents = call[p].result.postgres_documents
                      /\ HasIssue(r, <<"Milvus verification error">>) => ~r.milvus_connected
                      /\ ~has_collection => ~r.milvus_connected
                      /\ IF r.milvus_connected
                         THEN \/ r.milvus_vectors = Min(VectorCount, QueryLimit)
                              \/ /\ HasIssue(r, <<"Could not query Milvus vectors">>)
                                 /\ r.milvus_vectors = 0
                         ELSE r.milvus_vectors = 0]_vars

\* verify() has returned a report although PostgreSQL raised: Milvus was
\* reached and its records counted
C16_Witness ==
    /\ call[1].op = "verify" /\ call[1].pc = "done"
    /\ HasIssue(call[1].result, <<"PostgreSQL verification error">>)
    /\ ~call[1].result.postgres_connected
    /\ call[1].result.milvus_connected
    /\ call[1].result.milvus_vectors = 1
    /\ chunks # {}


\* the step in which db.commit() of caller p's store_document is rejected:
\* R already holds a document with the hash of the text
CommitRejected(p) ==
    /\ call[p].op = "store" /\ call[p].pc = "commit"
    /\ call'[p] # call[p]
    /\ \E d \in documents : d.file_hash = file_hash_of(call[p].text)

(***************************************************************************)
(* C17: when two store_document calls with the same text have both passed  *)
(* the lookup and the commit of the second is rejected by the unique       *)
(* constraint on file_hash, that call does not raise: it returns the id    *)
(* of the document the first call stored.                                  *)
(***************************************************************************)
C17_DuplicateCommitIsHandled ==
    [][\A p \in Procs :
         CommitRejected(p)
         => /\ call'[p].pc = "done"
            /\ \E d \in documents :
                 /\ d.file_hash = file_hash_of(call[p].text)
                 /\ call'[p].result = Returned(d.id)]_vars

(***************************************************************************)
(* C18: under any interleaving of store_document calls R holds at most one *)
(* document per content hash, and a call whose commit is rejected leaves   *)
(* no document and no chunk of its own in R and no record of its own in V. *)
(***************************************************************************)
C18_OneDocumentPerHash ==
    [][/\ \A d1, d2 \in documents' : d1.file_hash = d2.file_hash => d1 = d2
       /\ \A p \in Procs :
            CommitRejected(p)
            => /\ documents' = documents
               /\ chunks' = chunks
               /\ vectors' = vectors
               /\ \A d \in documents' : d.id # call[p].document_id
               /\ \A c \in chunks' :
                    /\ c.document_id # call[p].document_id
                    /\ c \notin Range(call[p].chunk_records)
               /\ \A r \in DOMAIN vectors' : r.document_id # call[p].document_id]_vars

\* the commit of caller 2 was rejected: caller 1 had stored the same text
\* after caller 2's lookup
C18_Witness ==
    /\ call[2] = Fail("store", "IntegrityError")
    /\ call[1].op = "store" /\ call[1].pc \in {"embed", "done"}
    /\ Cardinality(documents) = 1
    /\ Cardinality(chunks) = 2


\* a step of resync_databases() of caller p
ResyncSteps(p) ==
    call'[p] # call[p] /\ call'[p].op = "resync"

(***************************************************************************)
(* C19: resync_databases only reads R and only adds to V: none of its      *)
(* steps changes a document or a chunk, drops the collection or removes a  *)
(* record, so every record V held before the call, those without chunk in  *)
(* R included, is in V after it.                                           *)
(***************************************************************************)
C19_ResyncOnlyAdds ==
    [][\A p \in Procs :
         ResyncSteps(p)
         => /\ documents' = documents
            /\ chunks' = chunks
            /\ has_collection' = has_collection
            /\ \A r \in DOMAIN vectors :
                 /\ r \in DOMAIN vectors'
                 /\ vectors'[r] >= vectors[r]]_vars

\* a run has inserted a missing vector and returned while V holds a record
\* whose chunk is not in R
C19_Witness ==
    /\ call[1].op = "resync" /\ call[1].pc = "done"
    /\ call[1].result.vectors_inserted >= 1
    /\ AllChunksHaveVectors
    /\ \E r \in DOMAIN vectors : \A c \in chunks : r.id # uuid_to_int64(c.id)


\* resync_databases() of caller 1 has processed every document without error
\* (it has returned or is about to), delete_document(d) of caller 2 has
\* returned without error and V holds record r of document d
RaceLeftRecord(r) ==
    /\ call[1].op = "resync"
    /\ call[1].pc = "done" \/ (call[1].pc = "repair" /\ call[1].todo = {})
    /\ call[1].result.success /\ call[1].result.errors = <<>>
    /\ call[2].op = "delete" /\ call[2].pc = "done"
    /\ r \in DOMAIN vectors
    /\ r.document_id = call[2].document_id

(***************************************************************************)
(* C20: a resync_databases that read the chunks of d before                *)
(* delete_document(d) committed and inserted their vectors after the       *)
(* delete had cleared V leaves, with both calls ended without error, a     *)
(* record in V whose chunk is gone from R; a verify() whose scan returns   *)
(* the whole collection, run when every chunk of R has its vector, then    *)
(* reports synchronized = false.                                           *)
(***************************************************************************)
C20_ResyncDeleteRace ==
    \A r \in DOMAIN vectors :
        RaceLeftRecord(r)
        => /\ \A c \in chunks : c.document_id # r.document_id
           /\ \A c \in chunks : r.id # uuid_to_int64(c.id)
           /\ (AllChunksHaveVectors /\ VectorCount <= QueryLimit)
              => \A report \in VerificationReports : ~report.synchronized

\* the race has happened: the run read chunk c of d from R, did not find
\* its id in its scan of V and inserted its vector, and meanwhile
\* delete_document(d) removed c from R and returned; verify() reports the
\* stores out of step
C20_Witness ==
    /\ call[1].pc = "repair"
    /\ call[1].result.vectors_inserted >= 1
    /\ \E r \in DOMAIN vectors, c \in call[1].all_chunks :
         /\ RaceLeftRecord(r)
         /\ r.id = uuid_to_int64(c.id)
         /\ c.document_id = call[2].document_id
         /\ c \notin chunks
         /\ r.id \notin call[1].existing_vector_ids
    /\ AllChunksHaveVectors /\ VectorCount <= QueryLimit
    /\ \A report \in VerificationReports : ~report.synchronized


(***************************************************************************)
(* Numeric ids.                                                            *)
(***************************************************************************)
\* the chunk uuids handed out so far
IssuedChunkIds == {UuidPool[i] : i \in 1..next_chunk}

\* a byte of a digest read as a signed 8-bit number
SignedByte(x) == IF x >= 128 THEN x - 256 ELSE x

\* <<w3, w2, w1, w0>> stands for an integer of [-2^63, 2^63 - 1]
IsInt64(v) ==
    /\ v[1] \in -32768..32767
    /\ \A k \in 2..4 : v[k] \in 0..65535

\* v is bytes 1..8 of digest d, most significant byte first
IsBigEndianPrefix(v, d) ==
    /\ v[1] = SignedByte(d[1]) * 256 + d[2]
    /\ \A k \in 2..4 : v[k] \div 256 = d[2 * k - 1] /\ v[k] % 256 = d[2 * k]

MaxTextLen   == 8         \* longest text given to chunk_text_simple
MaxChunkSize == 7         \* largest chunk_size given to chunk_text_simple
MaxWindows   == 3         \* windows of one call that append a chunk

\* CHUNK_MIN_SIZE of config.py (100 for CHUNK_SIZE = 500), scaled to the
\* chunk sizes above
CHUNK_MIN_SIZE == 2

Max(a, b) == IF a >= b THEN a ELSE b

\* characters str.strip() removes
Whitespace == {" ", "\n"}

SimpleAlphabet == {"a", ".", " "}

TextsUpTo(alphabet, n) == UNION {[1..k -> alphabet] : k \in 0..n}

\* s[a:b]
PySlice(s, a, b) ==
    LET n  == Len(s)
        lo == IF a < 0 THEN Max(a + n, 0) ELSE Min(a, n)
        hi == IF b < 0 THEN Max(b + n, 0) ELSE Min(b, n)
    IN  IF lo >= hi THEN <<>> ELSE SubSeq(s, lo + 1, hi)

\* s.strip()
strip(s) ==
    LET keep == {i \in 1..Len(s) : s[i] \notin Whitespace}
    IN  IF keep = {} THEN <<>>
        ELSE SubSeq(s, CHOOSE i \in keep : \A j \in keep : i <= j,
                       CHOOSE i \in keep : \A j \in keep : i >= j)

\* s.rfind(sub): the highest index at which sub starts in s, or -1
rfind(s, sub) ==
    LET at == {i \in 0..(Len(s) - Len(sub)) : SubSeq(s, i + 1, i + Len(sub)) = sub}
    IN  IF at = {} THEN -1 ELSE CHOOSE i \in at : \A j \in at : i >= j

\* the delimiters chunk_text_simple looks for, in its order
break_chars ==
    << <<".", " ">>, <<".", "\n">>, <<"!", " ">>, <<"!", "\n">>,
       <<"?", " ">>, <<"?", "\n">>, <<"\n", "\n">> >>

\* the first delimiter of break_chars whose last occurrence in the window
\* lies beyond half of chunk_size; 0 when there is none
first_break(chunk, chunk_size) ==
    LET good == {k \in DOMAIN break_chars :
                    2 * rfind(chunk, break_chars[k]) > chunk_size}
    IN  IF good = {} THEN 0 ELSE CHOOSE k \in good : \A j \in good : k <= j

\* the iteration, were the minimum chunk size applied to the first window too
SimpleWindow_min_size_always(text, chunk_size, chunk_overlap, start, chunk_list) ==
    LET end0   == start + chunk_size
        chunk0 == PySlice(text, start, end0)
        k      == IF end0 < Len(text) THEN first_break(chunk0, chunk_size) ELSE 0
        chunk  == IF k = 0 THEN chunk0
                  ELSE PySlice(chunk0, 0, rfind(chunk0, break_chars[k]) + Len(break_chars[k]))
        end    == IF k = 0 THEN end0 ELSE start + Len(chunk)
        chunk_text == strip(chunk)
    IN  [chunks |-> IF Len(chunk_text) >= CHUNK_MIN_SIZE
                    THEN Append(chunk_list, chunk_text) ELSE chunk_list,
         start  |-> end - chunk_overlap]

\* one iteration of the while loop of chunk_text_simple: the chunk list and
\* the window start after it
SimpleWindow(text, chunk_size, chunk_overlap, start, chunk_list) ==
    LET end0   == start + chunk_size
        chunk0 == PySlice(text, start, end0)
        k      == IF end0 < Len(text) THEN first_break(chunk0, chunk_size) ELSE 0
        chunk  == IF k = 0 THEN chunk0
                  ELSE PySlice(chunk0, 0, rfind(chunk0, break_chars[k]) + Len(break_chars[k]))
        end    == IF k = 0 THEN end0 ELSE start + Len(chunk)
        chunk_text == strip(chunk)
    IN  [chunks |-> IF Len(chunk_text) >= CHUNK_MIN_SIZE \/ start = 0
                    THEN Append(chunk_list, chunk_text) ELSE chunk_list,
         start  |-> end - chunk_overlap]

\* chunk_text_simple(text, chunk_size, chunk_overlap) has been called
SimpleCall(text, chunk_size, chunk_overlap) ==
    [op |-> "chunk_text_simple", pc |-> "called", text |-> text,
     chunk_size |-> chunk_size, chunk_overlap |-> chunk_overlap,
     start |-> 0, chunks |-> <<>>, result |-> NoResult]

\* the call has returned: its arguments and its result
ChunkerReturn(c, value) ==
    [op |-> c.op, pc |-> "done", text |-> c.text, chunk_size |-> c.chunk_size,
     chunk_overlap |-> c.chunk_overlap, result |-> Returned(value)]

\* caller 1 has called chunk_text_simple on some text with some
\* 0 < chunk_overlap < chunk_size; the stores are as Init leaves them
InitChunkTextSimple ==
    /\ documents = {}
    /\ chunks = {}
    /\ has_collection = TRUE
    /\ vectors = EmptyBag
    /\ next_doc = 0
    /\ next_chunk = 0
    /\ hist = NoHist
    /\ \E text \in TextsUpTo(SimpleAlphabet, MaxTextLen) :
       \E chunk_size \in 2..MaxChunkSize :
       \E chunk_overlap \in 1..(chunk_size - 1) :
          call = [p \in Procs |-> IF p = 1 THEN SimpleCall(text, chunk_size, chunk_overlap)
                                  ELSE IdleCall]

\* chunk_text_simple up to its loop: the texts that need no window
ChunkSimpleBegin(p) ==
    /\ call[p].op = "chunk_text_simple"
    /\ call[p].pc = "called"
    /\ LET c == call[p]
       IN  call' = [call EXCEPT ![p] =
                       IF c.text = <<>> THEN ChunkerReturn(c, <<>>)
                       ELSE IF Len(c.text) <= c.chunk_size THEN ChunkerReturn(c, <<c.text>>)
                       ELSE [c EXCEPT !.pc = "window"]]
    /\ UNCHANGED <<documents, chunks, has_collection, vectors, next_doc, next_chunk, hist>>

\* one iteration of the loop, and the return when the loop ends
ChunkSimpleWindow(p) ==
    /\ call[p].op = "chunk_text_simple"
    /\ call[p].pc = "window"
    /\ call[p].start < Len(call[p].text)
    /\ Len(call[p].chunks) < MaxWindows
    /\ LET c == call[p]
           w == SimpleWindow(c.text, c.chunk_size, c.chunk_overlap, c.start, c.chunks)
       IN  call' = [call EXCEPT ![p] =
                       IF w.start >= Len(c.text) THEN ChunkerReturn(c, w.chunks)
                       ELSE [c EXCEPT !.start = w.start, !.chunks = w.chunks]]
    /\ UNCHANGED <<documents, chunks, has_collection, vectors, next_doc, next_chunk, hist>>

NextChunkTextSimple ==
    \/ ChunkSimpleBegin(1)
    \/ ChunkSimpleWindow(1)

SpecChunkTextSimple == InitChunkTextSimple /\ [][NextChunkTextSimple]_vars

\* the call of caller 1 is a chunk_text_simple call that has returned
SimpleReturned ==
    /\ call[1].op = "chunk_text_simple"
    /\ call[1].pc = "done"

\* C24: chunk_text_simple returns chunks no longer than chunk_size, all but
\* the first at least CHUNK_MIN_SIZE long; a non-empty text that fits
\* chunk_size comes back as the single chunk [text], the empty text as [].
C24_SimpleChunkBounds ==
    SimpleReturned =>
        LET c == call[1]
            r == c.result.value
        IN  /\ \A i \in DOMAIN r : Len(r[i]) <= c.chunk_size
            /\ \A i \in DOMAIN r : i > 1 => Len(r[i]) >= CHUNK_MIN_SIZE
            /\ c.text = <<>> => r = <<>>
            /\ (c.text # <<>> /\ Len(c.text) <= c.chunk_size) => r = <<c.text>>
            /\ Len(c.text) > c.chunk_size =>
                  /\ Len(r) >= 1
                  /\ \E k \in 1..c.chunk_size : r[1] = strip(PySlice(c.text, 0, k))

\* a returned list whose first chunk is shorter than the minimum and whose
\* second chunk is not, from a text longer than chunk_size
C24_Witness ==
    /\ SimpleReturned
    /\ Len(call[1].text) > call[1].chunk_size
    /\ Len(call[1].result.value) >= 2
    /\ Len(call[1].result.value[1]) < CHUNK_MIN_SIZE

\* C30: with 0 < chunk_overlap < chunk_size every iteration of the loop of
\* chunk_text_simple moves the window start forward.
C30_WindowStartIncreases ==
    [][ (/\ call[1].op = "chunk_text_simple"
         /\ call[1].pc = "window"
         /\ call'[1].pc = "window"
         /\ 0 < call[1].chunk_overlap
         /\ call[1].chunk_overlap < call[1].chunk_size)
        => call'[1].start > call[1].start ]_vars


(***************************************************************************)
(* toc_extractor.build_toc_hierarchy.  A TOCItem is a record of title,     *)
(* level and position; the objects of one call are named by their index in *)
(* the sorted list, and the children list of each object is kept per       *)
(* index, as the code keeps it per object.                                 *)
(***************************************************************************)
MaxNodes    == 3          \* longest flat list given to build_toc_hierarchy
MaxLevel    == 3          \* deepest heading level in it
MaxPosition == 3          \* largest position in it

TitlePool == << "A", "B", "C", "D", "E" >>

TOCItem(title, level, position) ==
    [title |-> title, level |-> level, position |-> position]

\* the flat lists an extractor may hand over: any order, positions may repeat
FlatItemLists ==
    UNION { { [i \in 1..n |-> TOCItem(TitlePool[i], lv[i], ps[i])] :
                 lv \in [1..n -> 1..MaxLevel], ps \in [1..n -> 0..MaxPosition] } :
            n \in 0..MaxNodes }

\* sorted(flat_items, key=lambda x: x.position): stable
sorted_by_position(flat_items) ==
    LET n == Len(flat_items)
        rank(i) == 1 + Cardinality({j \in 1..n :
                          \/ flat_items[j].position < flat_items[i].position
                          \/ /\ flat_items[j].position = flat_items[i].position
                             /\ j < i})
    IN  [k \in 1..n |-> flat_items[CHOOSE i \in 1..n : rank(i) = k]]

\* the pop condition, were it strict
must_pop_strict(top_level, level) == top_level > level

\* while stack and stack[-1][1] >= item.level
must_pop(top_level, level) == top_level >= level

RECURSIVE pop_stack(_, _, _)
pop_stack(stack, items, level) ==
    IF stack # <<>> /\ must_pop(items[stack[Len(stack)]].level, level)
    THEN pop_stack(SubSeq(stack, 1, Len(stack) - 1), items, level)
    ELSE stack

\* the for loop of build_toc_hierarchy from item i on
RECURSIVE build_from(_, _, _, _, _)
build_from(items, i, stack, root_items, children) ==
    IF i > Len(items)
    THEN [items |-> items, root_items |-> root_items, children |-> children]
    ELSE LET st == pop_stack(stack, items, items[i].level)
         IN  IF st = <<>>
             THEN build_from(items, i + 1, Append(st, i), Append(root_items, i), children)
             ELSE build_from(items, i + 1, Append(st, i), root_items,
                             [children EXCEPT ![st[Len(st)]] = Append(@, i)])

build_toc_hierarchy(flat_items) ==
    IF flat_items = <<>>
    THEN [items |-> <<>>, root_items |-> <<>>, children |-> <<>>]
    ELSE LET sorted_items == sorted_by_position(flat_items)
         IN  build_from(sorted_items, 1, <<>>, <<>>, [i \in 1..Len(sorted_items) |-> <<>>])

HierarchyCall(flat_items) ==
    [op |-> "build_toc_hierarchy", pc |-> "called", flat_items |-> flat_items,
     result |-> NoResult]

InitBuildTocHierarchy ==
    /\ documents = {}
    /\ chunks = {}
    /\ has_collection = TRUE
    /\ vectors = EmptyBag
    /\ next_doc = 0
    /\ next_chunk = 0
    /\ hist = NoHist
    /\ \E flat_items \in FlatItemLists :
          call = [p \in Procs |-> IF p = 1 THEN HierarchyCall(flat_items) ELSE IdleCall]

BuildTocHierarchy(p) ==
    /\ call[p].op = "build_toc_hierarchy"
    /\ call[p].pc = "called"
    /\ call' = [call EXCEPT ![p] =
                   [@ EXCEPT !.pc = "done",
                             !.result = Returned(build_toc_hierarchy(call[p].flat_items))]]
    /\ UNCHANGED <<documents, chunks, has_collection, vectors, next_doc, next_chunk, hist>>

NextBuildTocHierarchy == BuildTocHierarchy(1)

SpecBuildTocHierarchy == InitBuildTocHierarchy /\ [][NextBuildTocHierarchy]_vars

\* the places of the forest at which the object of index i hangs
PlacesOf(forest, i) ==
    {<<0, k>> : k \in {m \in DOMAIN forest.root_items : forest.root_items[m] = i}}
    \cup UNION { {<<j, k>> : k \in {m \in DOMAIN forest.children[j] :
                                       forest.children[j][m] = i}} :
                 j \in DOMAIN forest.children }

\* the index of the nearest item before i with a smaller level, 0 if none
NearestShallower(items, i) ==
    LET before == {j \in 1..(i - 1) : items[j].level < items[i].level}
    IN  IF before = {} THEN 0 ELSE CHOOSE j \in before : \A k \in before : j >= k

HierarchyReturned ==
    /\ call[1].op = "build_toc_hierarchy"
    /\ call[1].pc = "done"

\* C25: build_toc_hierarchy returns a forest over exactly the input nodes,
\* each hanging at one place: in position order the parent of a node is the
\* nearest node before it with a strictly smaller level, a node without one
\* is a root, and a child is deeper than its parent and comes after it.
C25_HierarchyIsForest ==
    HierarchyReturned =>
        LET forest == call[1].result.value
            items  == forest.items
        IN  /\ BagOfSeq(items) = BagOfSeq(call[1].flat_items)
            /\ \A i, j \in DOMAIN items : i < j => items[i].position <= items[j].position
            /\ \A i \in DOMAIN items :
                  /\ Cardinality(PlacesOf(forest, i)) = 1
                  /\ \E k \in 1..Len(items) :
                        PlacesOf(forest, i) = {<<NearestShallower(items, i), k>>}
            /\ \A j \in DOMAIN forest.children : \A k \in DOMAIN forest.children[j] :
                  LET i == forest.children[j][k]
                  IN  j < i /\ items[j].level < items[i].level

\* three nodes given out of position order: a root, its child, and a node
\* of the child's level that hangs under the root as well
C25_Witness ==
    /\ HierarchyReturned
    /\ Len(call[1].flat_items) = 3
    /\ call[1].flat_items[1].position > call[1].flat_items[2].position
    /\ call[1].result.value.children[1] = <<2, 3>>
    /\ call[1].result.value.items[2].level = call[1].result.value.items[3].level


(***************************************************************************)
(* Documents with headings.  A document is a list of lines joined by       *)
(* newlines; the lines come from a pool of headings, body lines with and   *)
(* without sentence ends, a blank line and an underline.                   *)
(***************************************************************************)
MaxLines == 4             \* most lines of a document

LinePool ==
    { <<>>,
      <<"#", " ", "a">>,
      <<"#", "#", " ", "b">>,
      <<"a", ".", " ", "a", "a", ".", " ", "a", "a", ".", " ", "a">>,
      <<"a", "a", "a", "a", "a", "a", "a", "a", "a">>,
      <<"a", "a">>,
      <<"=", "=", "=">> }

RECURSIVE join(_, _)
\* sep.join(parts)
join(parts, sep) ==
    IF parts = <<>> THEN <<>>
    ELSE IF Len(parts) = 1 THEN parts[1]
    ELSE parts[1] \o sep \o join(Tail(parts), sep)

\* the documents of the model
Documents ==
    UNION { {join(ls, <<"\n">>) : ls \in [1..n -> LinePool]} : n \in 1..MaxLines }

\* s.find(sub): the lowest index at which sub starts in s, or -1
find(s, sub) ==
    LET at == {i \in 0..(Len(s) - Len(sub)) : SubSeq(s, i + 1, i + Len(sub)) = sub}
    IN  IF at = {} THEN -1 ELSE CHOOSE i \in at : \A j \in at : i <= j

RECURSIVE split(_, _)
\* s.split(sep)
split(s, sep) ==
    LET i == find(s, sep)
    IN  IF i = -1 THEN <<s>>
        ELSE <<PySlice(s, 0, i)>> \o split(PySlice(s, i + Len(sep), Len(s)), sep)

\* the number of "#" a line starts with
RECURSIVE leading_hashes(_)
leading_hashes(line) ==
    IF line # <<>> /\ line[1] = "#" THEN 1 + leading_hashes(Tail(line)) ELSE 0

\* s.lstrip()
RECURSIVE lstrip(_)
lstrip(s) == IF s # <<>> /\ s[1] \in Whitespace THEN lstrip(Tail(s)) ELSE s

\* re.match(r'^(#{1,6})\s+(.+)$', line): whether it matches, and groups 1, 2
heading_match(line) ==
    LET h    == leading_hashes(line)
        rest == PySlice(line, h, Len(line))
    IN  IF /\ h \in 1..6
           /\ rest # <<>>
           /\ rest[1] \in Whitespace
           /\ Len(rest) >= 2
        THEN [matched |-> TRUE, level |-> h,
              group2 |-> IF lstrip(rest) = <<>> THEN <<rest[Len(rest)]>> ELSE lstrip(rest)]
        ELSE [matched |-> FALSE, level |-> 0, group2 |-> <<>>]

\* re.match(r'^[=\-]{3,}$', line)
underline_match(line) ==
    /\ Len(line) >= 3
    /\ \A i \in DOMAIN line : line[i] \in {"=", "-"}

\* sum(len(l) + 1 for l in lines[:line_num]), line_num counted from 0
RECURSIVE position_of_line(_, _)
position_of_line(lines, line_num) ==
    IF line_num = 0 THEN 0
    ELSE position_of_line(lines, line_num - 1) + Len(lines[line_num]) + 1

\* the for loop of extract_toc_markdown from line line_num (counted from 0) on
RECURSIVE markdown_from(_, _, _)
markdown_from(lines, line_num, toc_items) ==
    IF line_num >= Len(lines) THEN toc_items
    ELSE LET line == lines[line_num + 1]
             m    == heading_match(strip(line))
         IN  IF m.matched
             THEN markdown_from(lines, line_num + 1,
                      Append(toc_items,
                             TOCItem(strip(m.group2), m.level, position_of_line(lines, line_num))))
             ELSE IF /\ line_num > 0
                     /\ strip(line) # <<>>
                     /\ strip(lines[line_num]) # <<>>
                     /\ underline_match(strip(line))
                  THEN LET title    == strip(lines[line_num])
                           level    == IF strip(line)[1] = "=" THEN 1 ELSE 2
                           position == position_of_line(lines, line_num - 1)
                       IN  IF \E i \in DOMAIN toc_items :
                                 toc_items[i].title = title /\ toc_items[i].position = position
                           THEN markdown_from(lines, line_num + 1, toc_items)
                           ELSE markdown_from(lines, line_num + 1,
                                     Append(toc_items, TOCItem(title, level, position)))
                  ELSE markdown_from(lines, line_num + 1, toc_items)

extract_toc_markdown(text) == markdown_from(split(text, <<"\n">>), 0, <<>>)

\* detect_toc_sections(text): a section is kept only when it is longer than
\* 20 characters and shorter than 0.3 * len(text); no document of fewer than
\* 67 characters has one
detect_toc_sections(text) == {}

\* filter_toc_duplicates(flat_items, text)
filter_toc_duplicates(flat_items, text) ==
    SelectSeq(flat_items,
              LAMBDA item : ~ \E sec \in detect_toc_sections(text) :
                                sec[1] <= item.position /\ item.position < sec[2])

\* extract_toc(text, filename) for a filename ending in .md
extract_toc(text) ==
    build_toc_hierarchy(filter_toc_duplicates(extract_toc_markdown(text), text))



(***************************************************************************)
(* ChunkExtractor.chunk_text_toc_aware.  The configuration is that of      *)
(* config.py scaled to the documents above: windows of CHUNK_SIZE = 4      *)
(* characters overlapping by CHUNK_OVERLAP = 1 (500 and 50), and at most   *)
(* EMBEDDING_MAX_LENGTH = 8 characters per embedded chunk (8000).          *)
(***************************************************************************)
CHUNK_SIZE == 4

CHUNK_OVERLAP == 1

EMBEDDING_MAX_LENGTH == 8

\* None where a position or a chunk index is expected: no index equals it
None == -1

\* the while loop of chunk_text_simple, run to its end
RECURSIVE simple_loop(_, _, _, _, _)
simple_loop(text, chunk_size, chunk_overlap, start, chunk_list) ==
    LET w == SimpleWindow(text, chunk_size, chunk_overlap, start, chunk_list)
    IN  IF w.start >= Len(text) THEN w.chunks
        ELSE simple_loop(text, chunk_size, chunk_overlap, w.start, w.chunks)

\* the unstructured mode, were it to give up
chunk_text_simple_none(text) == <<>>

\* self.chunk_text_simple(text) with the configured size and overlap
chunk_text_simple(text) ==
    IF text = <<>> THEN <<>>
    ELSE IF Len(text) <= CHUNK_SIZE THEN <<text>>
    ELSE simple_loop(text, CHUNK_SIZE, CHUNK_OVERLAP, 0, <<>>)

\* collect_all_items(items_list): the items and their descendants, parents first
RECURSIVE collect_all_items(_, _)
collect_all_items(forest, items_list) ==
    IF items_list = <<>> THEN <<>>
    ELSE <<items_list[1]>>
         \o collect_all_items(forest, forest.children[items_list[1]])
         \o collect_all_items(forest, Tail(items_list))

\* min(default, the positions in candidates)
min_position(candidates, default) ==
    IF candidates = {} THEN default
    ELSE Min(default, CHOOSE x \in candidates : \A y \in candidates : x <= y)

\* the same, were every later item to end the span
ends_span_any_level(other_position, other_level, position, level) ==
    other_position > position

\* whether an item at other_position with other_level ends the span of an
\* item at position with level
ends_span(other_position, other_level, position, level) ==
    other_position > position /\ other_level <= level

\* flatten_toc_items(items_list): (start_pos, end_pos, title, item) of the
\* items and their descendants; the end of an item is sought among the
\* items of the list it is in and their descendants
RECURSIVE flatten_toc_items(_, _, _)
RECURSIVE flatten_from(_, _, _, _)
flatten_from(text, forest, all_toc_items_flat, items_list) ==
    IF items_list = <<>> THEN <<>>
    ELSE LET i    == items_list[1]
             item == forest.items[i]
             end_pos ==
                 min_position({forest.items[o].position : o \in
                                  {o \in Range(all_toc_items_flat) :
                                      ends_span(forest.items[o].position, forest.items[o].level,
                                                item.position, item.level)}},
                              Len(text))
         IN  << [start |-> item.position, end |-> end_pos, title |-> item.title, item |-> i] >>
             \o flatten_toc_items(text, forest, forest.children[i])
             \o flatten_from(text, forest, all_toc_items_flat, Tail(items_list))

flatten_toc_items(text, forest, items_list) ==
    flatten_from(text, forest, collect_all_items(forest, items_list), items_list)

\* list.sort(key=lambda x: x[0]): stable
sorted_by_start(tuples) ==
    LET n == Len(tuples)
        rank(i) == 1 + Cardinality({j \in 1..n :
                          \/ tuples[j].start < tuples[i].start
                          \/ tuples[j].start = tuples[i].start /\ j < i})
    IN  [k \in 1..n |-> tuples[CHOOSE i \in 1..n : rank(i) = k]]

\* the spans the chunks are cut from: the flattened items in position
\* order, each end moved to the nearest later item of the same or a
\* shallower level
processed_items(text, forest) ==
    LET all_toc_items == sorted_by_start(flatten_toc_items(text, forest, forest.root_items))
        adjust(t) ==
            [t EXCEPT !.end =
                min_position({all_toc_items[o].start : o \in
                                 {o \in DOMAIN all_toc_items :
                                     ends_span(all_toc_items[o].start,
                                               forest.items[all_toc_items[o].item].level,
                                               t.start, forest.items[t.item].level)}},
                             t.end)]
    IN  sorted_by_start([k \in DOMAIN all_toc_items |-> adjust(all_toc_items[k])])


SentenceEnds == {".", "!", "?"}

\* the length of the whitespace run s starts with
RECURSIVE whitespace_run(_)
whitespace_run(s) ==
    IF s # <<>> /\ s[1] \in Whitespace THEN 1 + whitespace_run(Tail(s)) ELSE 0

\* re.split(r'([.!?]\s+|[.!?]\n+)', s): the texts between the delimiters
\* and the delimiters, alternating
RECURSIVE re_split_sentences(_)
re_split_sentences(s) ==
    LET at == {i \in 1..(Len(s) - 1) : s[i] \in SentenceEnds /\ s[i + 1] \in Whitespace}
    IN  IF at = {} THEN <<s>>
        ELSE LET i == CHOOSE x \in at : \A y \in at : x <= y
                 j == i + whitespace_run(SubSeq(s, i + 1, Len(s)))
             IN  <<SubSeq(s, 1, i - 1), SubSeq(s, i, j)>>
                 \o re_split_sentences(SubSeq(s, j + 1, Len(s)))

\* the same, were the counter of the item's chunks never advanced
Emit_same_index(st, chunk, item_key) ==
    [st EXCEPT !.out = Append(@, [text |-> chunk, item_key |-> item_key,
                                  chunk_index_in_item |-> st.chunk_index_in_item])]

\* the chunks cut from one item so far: st.current_chunk, the counter
\* st.chunk_index_in_item, and st.out, the chunks appended with the
\* (item_key, chunk_index_in_item) noted for each
Emit(st, chunk, item_key) ==
    [st EXCEPT !.out = Append(@, [text |-> chunk, item_key |-> item_key,
                                  chunk_index_in_item |-> st.chunk_index_in_item]),
               !.chunk_index_in_item = @ + 1]

\* whether temp_chunk is closed before sentence is added
closes_chunk(temp_chunk, sentence, limit) ==
    temp_chunk # <<>> /\ Len(temp_chunk) + Len(sentence) > limit

\* the for loop over the sentences of an oversized paragraph, from piece i
\* (counted from 0) of sentences on; st.current_chunk is temp_chunk
RECURSIVE sentence_loop(_, _, _, _, _)
sentence_loop(sentences, i, st, item_key, limit) ==
    IF i >= Len(sentences) THEN st
    ELSE LET sentence == sentences[i + 1]
                         \o (IF i + 1 < Len(sentences) THEN sentences[i + 2] ELSE <<>>)
             temp_chunk == st.current_chunk
         IN  IF closes_chunk(temp_chunk, sentence, limit)
             THEN sentence_loop(sentences, i + 2,
                      [Emit(st, strip(temp_chunk), item_key) EXCEPT !.current_chunk = sentence],
                      item_key, limit)
             ELSE sentence_loop(sentences, i + 2,
                      [st EXCEPT !.current_chunk = temp_chunk \o sentence],
                      item_key, limit)

\* the for loop over the paragraphs of an item that exceeds the limit
RECURSIVE paragraph_loop(_, _, _, _)
paragraph_loop(paragraphs, st, item_key, limit) ==
    IF paragraphs = <<>> THEN st
    ELSE LET para == strip(paragraphs[1])
         IN  IF para = <<>> THEN paragraph_loop(Tail(paragraphs), st, item_key, limit)
             ELSE LET current_chunk == st.current_chunk
                      st1 == IF current_chunk # <<>>
                                /\ Len(current_chunk) + Len(para) + 2 > limit
                             THEN [Emit(st, current_chunk, item_key) EXCEPT !.current_chunk = para]
                             ELSE [st EXCEPT !.current_chunk =
                                      IF current_chunk # <<>>
                                      THEN current_chunk \o <<"\n", "\n">> \o para
                                      ELSE para]
                      st2 == IF Len(st1.current_chunk) > limit
                             THEN sentence_loop(re_split_sentences(st1.current_chunk), 0,
                                                [st1 EXCEPT !.current_chunk = <<>>],
                                                item_key, limit)
                             ELSE st1
                  IN  paragraph_loop(Tail(paragraphs), st2, item_key, limit)

\* the chunks of one item: its text when it fits, else its paragraphs and
\* sentences gathered up to the limit
item_chunks_of(item_text, item_key, limit) ==
    IF Len(item_text) <= limit
    THEN << [text |-> item_text, item_key |-> item_key, chunk_index_in_item |-> 0] >>
    ELSE LET st == paragraph_loop(split(item_text, <<"\n", "\n">>),
                                  [current_chunk |-> <<>>, chunk_index_in_item |-> 0, out |-> <<>>],
                                  item_key, limit)
         IN  IF st.current_chunk # <<>> THEN Emit(st, st.current_chunk, item_key).out
             ELSE st.out

\* the for loop over processed_items: chunks and chunk_to_toc_map, entry k
\* of the result being chunk k - 1 and what the map notes for it
RECURSIVE chunk_items(_, _, _)
chunk_items(text, spans, limit) ==
    IF spans = <<>> THEN <<>>
    ELSE LET span      == spans[1]
             item_text == strip(PySlice(text, span.start, span.end))
         IN  IF item_text = <<>> THEN chunk_items(text, Tail(spans), limit)
             ELSE item_chunks_of(item_text, <<span.start, span.title>>, limit)
                  \o chunk_items(text, Tail(spans), limit)

\* the same, were the chunks counted from 1
item_chunk_list_from_one(produced, item_key) ==
    LET idxs == {k \in DOMAIN produced : produced[k].item_key = item_key}
        rank(k) == 1 + Cardinality({j \in idxs : j < k})
    IN  [r \in 1..Cardinality(idxs) |->
            LET k == CHOOSE x \in idxs : rank(x) = r
            IN  [chunk_idx |-> k, chunk_index_in_item |-> produced[k].chunk_index_in_item]]

\* sorted(item_chunks[item_key], key=lambda x: x[1]): the (chunk_idx,
\* chunk_index_in_item) pairs noted for the key, by part, stable
item_chunk_list(produced, item_key) ==
    LET idxs == {k \in DOMAIN produced : produced[k].item_key = item_key}
        rank(k) == 1 + Cardinality({j \in idxs :
                          \/ produced[j].chunk_index_in_item < produced[k].chunk_index_in_item
                          \/ /\ produced[j].chunk_index_in_item = produced[k].chunk_index_in_item
                             /\ j < k})
    IN  [r \in 1..Cardinality(idxs) |->
            LET k == CHOOSE x \in idxs : rank(x) = r
            IN  [chunk_idx |-> k - 1, chunk_index_in_item |-> produced[k].chunk_index_in_item]]

\* f"{title} (Part {n})"
part_title(title, n) ==
    title \o <<" ", "(", "P", "a", "r", "t", " ", ToString(n), ")">>

\* an entry of the returned outline
TocDict(title, level, position, chunk_start, chunk_end, children) ==
    [title |-> title, level |-> level, position |-> position,
     chunk_start |-> chunk_start, chunk_end |-> chunk_end, children |-> children]

\* process_toc_items(items_list): one entry per chunk of each item, the
\* children under the entry of the first chunk; an item without chunk
\* keeps one entry without chunk range
RECURSIVE process_toc_items(_, _, _)
process_toc_items(forest, produced, items_list) ==
    IF items_list = <<>> THEN <<>>
    ELSE LET i    == items_list[1]
             item == forest.items[i]
             lst  == item_chunk_list(produced, <<item.position, item.title>>)
             kids == process_toc_items(forest, produced, forest.children[i])
             entries ==
                 IF lst = <<>>
                 THEN << TocDict(item.title, item.level, item.position, None, None, kids) >>
                 ELSE [r \in DOMAIN lst |->
                          IF lst[r].chunk_index_in_item = 0
                          THEN TocDict(item.title, item.level, item.position,
                                       lst[r].chunk_idx, lst[r].chunk_idx, kids)
                          ELSE TocDict(part_title(item.title, lst[r].chunk_index_in_item + 1),
                                       item.level, None,
                                       lst[r].chunk_idx, lst[r].chunk_idx, <<>>)]
         IN  entries \o process_toc_items(forest, produced, Tail(items_list))

\* [item.to_dict() for item in hierarchical_items]: the outline as
\* extract_toc returns it, no entry with a chunk range
RECURSIVE to_dict(_, _)
to_dict(forest, items_list) ==
    IF items_list = <<>> THEN <<>>
    ELSE LET item == forest.items[items_list[1]]
         IN  << TocDict(item.title, item.level, item.position, None, None,
                        to_dict(forest, forest.children[items_list[1]])) >>
             \o to_dict(forest, Tail(items_list))

\* the chunks and what chunk_to_toc_map notes for them, for an outline
structure_chunks(text, forest) ==
    chunk_items(text, processed_items(text, forest), EMBEDDING_MAX_LENGTH)

\* ChunkExtractor.chunk_text_toc_aware(text, filename) for a filename
\* ending in .md; extract_outcome tells whether extract_toc raised
ChunkExtractor_chunk_text_toc_aware(text, extract_outcome) ==
    IF text = <<>> THEN [chunks |-> <<>>, toc |-> None]
    ELSE LET forest == IF extract_outcome = "raises" THEN build_toc_hierarchy(<<>>)
                       ELSE extract_toc(text)
         IN  IF forest.items = <<>>
             THEN [chunks |-> chunk_text_simple(text), toc |-> None]
             ELSE LET produced == structure_chunks(text, forest)
                  IN  IF produced = <<>>
                      THEN [chunks |-> chunk_text_simple(text),
                            toc |-> to_dict(forest, forest.root_items)]
                      ELSE [chunks |-> [k \in DOMAIN produced |-> produced[k].text],
                            toc |-> process_toc_items(forest, produced, forest.root_items)]

ExtractOutcomes == {"ok", "raises"}

TocAwareCall(text) ==
    [op |-> "chunk_text_toc_aware", pc |-> "called", text |-> text,
     filename |-> "a.md", extract_outcome |-> "", result |-> NoResult]

InitChunkTextTocAware ==
    /\ documents = {}
    /\ chunks = {}
    /\ has_collection = TRUE
    /\ vectors = EmptyBag
    /\ next_doc = 0
    /\ next_chunk = 0
    /\ hist = NoHist
    /\ \E text \in Documents :
          call = [p \in Procs |-> IF p = 1 THEN TocAwareCall(text) ELSE IdleCall]

ChunkTextTocAware(p, extract_outcome) ==
    /\ call[p].op = "chunk_text_toc_aware"
    /\ call[p].pc = "called"
    /\ call' = [call EXCEPT ![p] =
                   [@ EXCEPT !.pc = "done",
                             !.extract_outcome = extract_outcome,
                             !.result = Returned(ChunkExtractor_chunk_text_toc_aware(
                                                     call[p].text, extract_outcome))]]
    /\ UNCHANGED <<documents, chunks, has_collection, vectors, next_doc, next_chunk, hist>>

NextChunkTextTocAware == \E extract_outcome \in ExtractOutcomes : ChunkTextTocAware(1, extract_outcome)

SpecChunkTextTocAware == InitChunkTextTocAware /\ [][NextChunkTextTocAware]_vars

TocAwareReturned ==
    /\ call[1].op = "chunk_text_toc_aware"
    /\ call[1].pc = "done"


\* the call returned chunks cut along the outline of the document
StructureAware ==
    /\ TocAwareReturned
    /\ call[1].extract_outcome = "ok"
    /\ call[1].text # <<>>
    /\ extract_toc(call[1].text).items # <<>>
    /\ structure_chunks(call[1].text, extract_toc(call[1].text)) # <<>>

\* where the span of item i ends: the smallest position beyond its own
\* among the items of its level or a shallower one, else the end of the text
SpanEnd(items, i, text) ==
    LET later == {items[j].position : j \in
                     {j \in DOMAIN items : /\ items[j].position > items[i].position
                                           /\ items[j].level <= items[i].level}}
    IN  IF later = {} THEN Len(text)
        ELSE CHOOSE x \in later : \A y \in later : x <= y

\* the entries of an outline and of their children, parents first
RECURSIVE AllEntries(_)
AllEntries(toc) ==
    IF toc = <<>> THEN <<>>
    ELSE <<toc[1]>> \o AllEntries(toc[1].children) \o AllEntries(Tail(toc))

\* C26: every node of the outline, inner node or leaf, is chunked from the
\* span [position, end) of the text, end being the smallest position
\* beyond the node's among the nodes of its level or a shallower one, or the
\* end of the document; a span that fits the limit is returned as the chunk
\* of the node's outline entry.
C26_SpanEndsAtSameOrShallower ==
    StructureAware =>
        LET text   == call[1].text
            forest == extract_toc(text)
            items  == forest.items
            spans  == processed_items(text, forest)
            r      == call[1].result.value
        IN  /\ Len(spans) = Len(items)
            /\ \A i \in DOMAIN items :
                  /\ Cardinality({k \in DOMAIN spans : spans[k].item = i}) = 1
                  /\ \A k \in DOMAIN spans : spans[k].item = i =>
                        /\ spans[k].start = items[i].position
                        /\ spans[k].end = SpanEnd(items, i, text)
                  /\ LET span_text == strip(PySlice(text, items[i].position,
                                                    SpanEnd(items, i, text)))
                     IN  (span_text # <<>> /\ Len(span_text) <= EMBEDDING_MAX_LENGTH) =>
                            \E e \in Range(AllEntries(r.toc)) :
                               /\ e.title = items[i].title
                               /\ e.position = items[i].position
                               /\ e.chunk_start # None
                               /\ r.chunks[e.chunk_start + 1] = span_text

\* a node with a child whose span runs past the child to a later node of
\* its own level, and fits one chunk
C26_Witness ==
    /\ StructureAware
    /\ LET text   == call[1].text
           forest == extract_toc(text)
           items  == forest.items
       IN  \E i, j, k \in DOMAIN items :
              /\ forest.children[i] = <<j>>
              /\ items[k].level = items[i].level
              /\ items[k].position > items[j].position
              /\ SpanEnd(items, i, text) = items[k].position
              /\ SpanEnd(items, j, text) = items[k].position
              /\ SpanEnd(items, k, text) = Len(text)
              /\ Len(strip(PySlice(text, items[i].position, items[k].position)))
                    <= EMBEDDING_MAX_LENGTH

\* C23: when a node is immediately followed by its child, the span chunked
\* for the node ends at the child's position, so that the chunks of the two
\* do not overlap.
C23_SpanEndsAtChild ==
    StructureAware =>
        LET text   == call[1].text
            forest == extract_toc(text)
            spans  == processed_items(text, forest)
        IN  \A k \in DOMAIN spans :
               LET i == spans[k].item
               IN  (i < Len(forest.items) /\ forest.children[i] # <<>>
                    /\ forest.children[i][1] = i + 1
                    /\ forest.items[i + 1].position > forest.items[i].position)
                   => spans[k].end = forest.items[i + 1].position

\* C21: every chunk returned for a document with an outline is at most
\* EMBEDDING_MAX_LENGTH characters long.
C21_ChunksWithinMaxLength ==
    StructureAware =>
        \A k \in DOMAIN call[1].result.value.chunks :
           Len(call[1].result.value.chunks[k]) <= EMBEDDING_MAX_LENGTH


\* the characters of s that are not whitespace
Squeeze(s) == SelectSeq(s, LAMBDA ch : ch \notin Whitespace)

\* the texts of produced[lo..hi], one after the other
RECURSIVE ConcatTexts(_, _, _)
ConcatTexts(produced, lo, hi) ==
    IF lo > hi THEN <<>> ELSE produced[lo].text \o ConcatTexts(produced, lo + 1, hi)

\* the key the chunker notes for the chunks of item i
KeyOf(items, i) == <<items[i].position, items[i].title>>

\* the places in the chunk list of the chunks cut from item i
RunOf(produced, items, i) ==
    {k \in DOMAIN produced : produced[k].item_key = KeyOf(items, i)}

\* the text of the span of item i
SpanText(items, i, text) ==
    strip(PySlice(text, items[i].position, SpanEnd(items, i, text)))

\* the title of the outline entry of a chunk
EntryTitle(title, chunk_index_in_item) ==
    IF chunk_index_in_item = 0 THEN title
    ELSE title \o <<" ", "(", "P", "a", "r", "t", " ">>
               \o <<ToString(chunk_index_in_item + 1)>> \o <<")">>

\* C27: every node with a non-empty span yields its own unbroken run of
\* chunks, the runs in position order; a span that fits the limit yields
\* exactly one chunk, the span text; the chunks of a run hold the text of
\* the node's span and nothing else; they are numbered 0, 1, ... in list
\* order and the outline entries of the parts after the first are titled
\* "<title> (Part N)", N the number plus one.
C27_OneRunPerNode ==
    StructureAware =>
        LET text     == call[1].text
            forest   == extract_toc(text)
            items    == forest.items
            produced == structure_chunks(text, forest)
            r        == call[1].result.value
        IN  /\ r.chunks = [k \in DOMAIN produced |-> produced[k].text]
            /\ \A k \in DOMAIN produced : \E i \in DOMAIN items :
                  k \in RunOf(produced, items, i)
            /\ \A i \in DOMAIN items :
                  LET run == RunOf(produced, items, i)
                      lo  == CHOOSE a \in run : \A b \in run : a <= b
                      hi  == CHOOSE a \in run : \A b \in run : a >= b
                  IN  /\ (run = {}) <=> (SpanText(items, i, text) = <<>>)
                      /\ run # {} =>
                            /\ run = lo..hi
                            /\ Len(SpanText(items, i, text)) <= EMBEDDING_MAX_LENGTH =>
                                  /\ lo = hi
                                  /\ r.chunks[lo] = SpanText(items, i, text)
                            /\ Squeeze(ConcatTexts(produced, lo, hi))
                                  = Squeeze(SpanText(items, i, text))
                            /\ \A a \in run : produced[a].chunk_index_in_item = a - lo
                            /\ \A a \in run : \E e \in Range(AllEntries(r.toc)) :
                                  /\ e.chunk_start = a - 1
                                  /\ e.level = items[i].level
                                  /\ e.title = EntryTitle(items[i].title, a - lo)
            /\ \A i, j \in DOMAIN items :
                  items[i].position < items[j].position =>
                     \A a \in RunOf(produced, items, i), b \in RunOf(produced, items, j) : a < b

\* a node split into three parts, followed by the chunk of a later node
C27_Witness ==
    /\ StructureAware
    /\ LET text     == call[1].text
           items    == extract_toc(text).items
           produced == structure_chunks(text, extract_toc(text))
       IN  /\ Len(items) >= 2
           /\ Cardinality(RunOf(produced, items, 1)) = 3
           /\ RunOf(produced, items, 2) # {}
           /\ \E e \in Range(AllEntries(call[1].result.value.toc)) :
                 e.title = EntryTitle(items[1].title, 2) /\ e.chunk_start = 2

C29_DegradesToSimple ==
    TocAwareReturned =>
        LET text == call[1].text
            r    == call[1].result
        IN  /\ r.kind = "returned"
            /\ (call[1].extract_outcome = "raises" \/ extract_toc(text).items = <<>>) =>
                  r.value = [chunks |-> chunk_text_simple(text), toc |-> None]
            /\ (/\ call[1].extract_outcome = "ok"
                /\ extract_toc(text).items # <<>>
                /\ structure_chunks(text, extract_toc(text)) = <<>>) =>
                  r.value.chunks = chunk_text_simple(text)
            /\ text # <<>> => r.value.chunks # <<>>

\* extract_toc raised on a document with headings, and the call returned
\* several windows of the text and no outline
C29_Witness ==
    /\ TocAwareReturned
    /\ call[1].extract_outcome = "raises"
    /\ extract_toc(call[1].text).items # <<>>
    /\ Len(call[1].result.value.chunks) >= 2
    /\ call[1].result.value.toc = None

=============================================================================
